---- MODULE Spec2Model ----
(***************************************************************************)
(* Model of the ventilation hub (Komplet kode uden comments):              *)
(*   - KlimaController  (climate_controller.py)  decision engine           *)
(*   - BME680Sensor     (indoor_sensor.py)       evaluation path           *)
(*   - MQTTKlient       (mqtt.py)                ingestion and publish     *)
(*   - SensorData       (sensor_data.py)         state store               *)
(*   - SyncKlient       (sync_client.py)         replication client        *)
(*   - Database         (database.py)            local durable log         *)
(*   - modtag_data      (remote_server.py)       remote collector          *)
(* Three specifications share the variables: SpecKlima (decision engine,   *)
(* override, cooldown, publish), SpecSync (replication) and SpecBatch      *)
(* (outdoor pending batch).  Each leaves the other parts unchanged.        *)
(* Python's None is the empty tuple, a present value v is <<v>>.           *)
(* Identifiers are the source's, with ae/oe/aa for the Danish letters.     *)
(***************************************************************************)
EXTENDS Integers, Sequences, FiniteSets, TLC

VARIABLES
    now,                     \* wall clock, seconds (datetime.now / time.time)
    maaned,                  \* datetime.now().month
    \* KlimaController
    sidste_kommando,
    sidste_kommando_tid,
    manuel_override_indtil,
    \* SensorData (state store)
    bme680_data,
    sensor_data,
    vindue_status,
    \* MQTTKlient
    forbundet,
    udgivet,                 \* last message handed to the broker on vindue/kommando
    publish_udfald,          \* outcome of the last publicer_kommando call
    sensor_batch,
    sidste_batch_tid,
    \* BME680Sensor._vurder_klima, between vurder_klima and publicer_kommando
    auto_kommando,
    auto_grund,
    \* outdoor sample cycle (ESP32 sensor) and frontend notifications
    cyklus,
    notifikationer,
    \* Database (local durable log), one set of rows per table
    db_sensor_data,
    db_fejl_logs,
    db_system_logs,
    naeste_id,
    \* SyncKlient
    sync_pc,
    data,
    forsoeg_taeller,
    vent_tid,
    svar,                    \* last outcome of requests.post: the status (0 when it
                             \* raised) and forsoeg_taeller before the call
    \* remote collector (PostgreSQL tables)
    remote_sensor_data,
    remote_fejl_logs,
    remote_system_logs,
    \* SensorData.lås and the threads that call the store
    laas,                    \* None, or the thread inside a with self.lås block
    traad,                   \* per thread: position, arguments, copies made
    maalt_klokken,           \* the 'målt_klokken' key of the three dicts
                             \* (stamped where a claim reads it: SpecStore,
                             \* SpecIndgang)
    snapshot,                \* what the last hent_alle_data returned
    historik,                \* per dict, its value after each whole update call
    \* calls of the override entry points of KlimaController, in order
    kald,
    \* the last inbound MQTT message: topic and payload
    sidste_besked,
    \* app.py: the status codes the control endpoint has answered, in order
    web_svar,
    \* SyncKlient.sync_data: the calls of the current cycle, in order
    sync_spor,
    \* calls of Database.markér_som_synkroniseret, in order
    marker_kald,
    \* MQTTKlient.run: the local forsøg, the position in the loop, the calls
    \* of klient.connect
    forsoeg,
    run_pc,
    forbindelser,
    \* main.py: position of the main thread, the global sensor_reference,
    \* the kører flag of each worker, what signal_handler has done so far
    hoved,
    sensor_reference,
    koerer,
    stoppet,
    ned_cyklusser,           \* sends of the replication worker so far
    \* KlimaController.manuel_override_indtil seen from two threads: the
    \* position of the sensor thread inside vurder_klima, what it last read,
    \* the threads that have written the attribute, the web handler's position
    eval_pc,
    eval_laest,
    skrivere,
    web_pc,
    \* valider_værdi: the raw input and what was returned
    valider_ind,
    valider_ud,
    \* BME680Sensor: self.sensor.data after the last get_sensor_data()
    bme680_laesning,
    \* app.py: the commands received on the control surface, in order, each
    \* with its channel (REST or WebSocket)
    web_modtaget,
    \* SensorData.websocket_klienter, the clients that ever connected, what
    \* each client has received, and the running broadcast_til_websockets
    websocket_klienter,
    ws_kendte,
    ws_modtaget,
    broadcast,
    \* SyncKlient seen through the only thing sync_data tests: per table the
    \* number of rows with synkroniseret = 0; with it SYNKRONISERINGS_INTERVAL
    \* as configured, the position of the worker, the batch it fetched,
    \* forsøg_tæller and the wait it last computed
    replikering,
    \* name of the last handler that ran
    sidste_handling

klimaVars == <<maaned, sidste_kommando, sidste_kommando_tid, manuel_override_indtil,
               bme680_data, vindue_status, forbundet, udgivet, publish_udfald,
               auto_kommando, auto_grund>>
batchVars == <<sensor_batch, sidste_batch_tid, cyklus, notifikationer>>
syncVars == <<db_sensor_data, db_fejl_logs, db_system_logs, naeste_id, sync_pc, data,
              forsoeg_taeller, vent_tid, svar, remote_sensor_data, remote_fejl_logs,
              remote_system_logs>>
laasVars == <<laas, traad, maalt_klokken, snapshot, historik>>
forbindVars == <<forsoeg, run_pc, forbindelser>>
nedRest == <<hoved, sensor_reference, stoppet, ned_cyklusser>>
nedVars == <<koerer, nedRest>>
ejerVars == <<eval_pc, eval_laest, skrivere, web_pc>>
validerVars == <<valider_ind, valider_ud>>
indeVars == <<bme680_laesning>>
wsVars == <<websocket_klienter, ws_kendte, ws_modtaget, broadcast>>
fladeVars == <<web_modtaget, wsVars>>
hvileVars == <<replikering>>
andreVars == <<web_svar, marker_kald, forbindVars, nedVars, ejerVars, validerVars, indeVars, fladeVars, hvileVars>>
driftVars == <<sync_spor, andreVars>>
ekstraVars == <<laasVars, kald, driftVars>>
vars == <<now, klimaVars, sensor_data, batchVars, syncVars, ekstraVars, sidste_besked,
          sidste_handling>>

None == <<>>
Some(v) == <<v>>
Val(o) == o[1]

(***************************************************************************)
(* Bounds of the model                                                     *)
(***************************************************************************)
Tick == 900          \* clock step of SpecKlima, seconds
MaxTid == 5400       \* SpecKlima stops the clock here
MaxId == 1           \* rows per table of the durable log (AUTOINCREMENT ids 1..MaxId)
MaxCyklusser == 2    \* outdoor sample cycles of SpecBatch
MaxOverrideKald == 3     \* calls of the override entry points in SpecOverride
MaxVindueBeskeder == 2   \* vindue/status messages in SpecIndgang
MaxKald == 2         \* calls of the store per thread in SpecStore
MaxStoreTid == 1     \* SpecStore stops the clock here
MaxWebKald == 2      \* requests to the control endpoint in SpecForbind
MaxMarkerKald == 2   \* calls of markér_som_synkroniseret in SpecMarker
MaxNedCyklusser == 2 \* sends of the replication worker in SpecNedlukning
MaxKlienter == 3     \* WebSocket clients that connect in SpecObservatoer
MaxBroadcasts == 2   \* calls of broadcast_til_websockets in SpecObservatoer
Klienter == 1..MaxKlienter
MaxAndre == 1        \* unsynced rows per table that other workers add in SpecHvile
MaxForsoeg == 4      \* SpecSync stops failing at this many consecutive failures

(***************************************************************************)
(* config.py, climate_controller.py: thresholds and tables                 *)
(***************************************************************************)
SYNKRONISERINGS_INTERVAL == 300
temp_lav == 19
temp_hoej == 22
fugt_lav == 40
fugt_hoej == 60
gas_lav == 45000
gas_meget_lav == 25000
ude_temp_lav == 10
ude_fugt_hoej == 95
kort_aaben_cooldown == 15 * 60
normal_cooldown == 30 * 60
manuel_override_varighed == 30 * 60

MAANEDLIGE_GNSN_TEMP ==
    [m \in 1..12 |-> <<2, 2, 4, 7, 12, 15, 17, 17, 14, 10, 6, 4>>[m]]
MAANEDLIGE_GNSN_FUGT ==
    [m \in 1..12 |-> <<86, 84, 81, 79, 77, 76, 79, 80, 83, 85, 86, 87>>[m]]

_hent_nuvaerende_maaneds_data(m) ==
    <<MAANEDLIGE_GNSN_TEMP[m], MAANEDLIGE_GNSN_FUGT[m]>>

(***************************************************************************)
(* KlimaController                                                         *)
(***************************************************************************)
\* climate_controller.py:176 and :87-88, the override test
override_aktiv_omvendt(indtil, t) == indtil # None /\ t > Val(indtil)

override_aktiv(indtil, t) == indtil # None /\ t < Val(indtil)

\* climate_controller.py:99-114, cooldown by kind of the last command
cooldown_udloebet_kort(kommando, tid_gaaet) == tid_gaaet >= kort_aaben_cooldown

cooldown_udloebet_ombyttet(kommando, tid_gaaet) ==
    IF kommando = Some("kort_aaben")
    THEN tid_gaaet >= normal_cooldown
    ELSE tid_gaaet >= kort_aaben_cooldown

cooldown_udloebet(kommando, tid_gaaet) ==
    IF kommando = Some("kort_aaben")
    THEN tid_gaaet >= kort_aaben_cooldown
    ELSE tid_gaaet >= normal_cooldown

\* returns whether a command may be sent, and the override after the call
\* (an expired override is reset to None)
_kan_sende_kommando(indtil, kommando, kommando_tid, t) ==
    IF override_aktiv(indtil, t)
    THEN [ok |-> FALSE, indtil |-> indtil]
    ELSE IF kommando_tid = None
         THEN [ok |-> TRUE, indtil |-> None]
         ELSE [ok |-> cooldown_udloebet(kommando, t - Val(kommando_tid)),
               indtil |-> None]

ude_vejr_daarligt_kun_temp(ude_temp, ude_fugt) == ude_temp < ude_temp_lav

_ude_vejr_daarligt(ude_temp, ude_fugt) ==
    ude_temp < ude_temp_lav \/ ude_fugt > ude_fugt_hoej

\* climate_controller.py:181-184, the monthly averages stand in for the
\* outdoor values that are None
ude_med_fallback_begge(ude_temp, ude_fugt, m) ==
    IF ude_temp = None \/ ude_fugt = None
    THEN [temp |-> _hent_nuvaerende_maaneds_data(m)[1],
          fugt |-> _hent_nuvaerende_maaneds_data(m)[2]]
    ELSE [temp |-> Val(ude_temp), fugt |-> Val(ude_fugt)]

ude_med_fallback(ude_temp, ude_fugt, m) ==
    [temp |-> IF ude_temp = None THEN _hent_nuvaerende_maaneds_data(m)[1]
              ELSE Val(ude_temp),
     fugt |-> IF ude_fugt = None THEN _hent_nuvaerende_maaneds_data(m)[2]
              ELSE Val(ude_fugt)]

\* climate_controller.py:213, gas_ok of the open branch
gas_ok_kun_maalt(inden_gas) == inden_gas # None /\ Val(inden_gas) > gas_lav

gas_ok(inden_gas) == inden_gas = None \/ Val(inden_gas) > gas_lav

\* climate_controller.py:232, ude_temp_bedre
ude_temp_bedre_altid(for_varmt, ude_temp, inden_temp) == for_varmt

ude_temp_bedre(for_varmt, ude_temp, inden_temp) == for_varmt /\ ude_temp < inden_temp

\* climate_controller.py:247-253, the conditions the reason text names
aabne_grunde_uden_ude(for_varmt, temp_bedre, for_fugtigt, fugt_bedre, daarlig_luft) ==
    (IF for_varmt THEN {"temp"} ELSE {})
    \cup (IF for_fugtigt THEN {"fugt"} ELSE {})
    \cup (IF daarlig_luft THEN {"luft"} ELSE {})

aabne_grunde(for_varmt, temp_bedre, for_fugtigt, fugt_bedre, daarlig_luft) ==
    (IF for_varmt /\ temp_bedre THEN {"temp"} ELSE {})
    \cup (IF for_fugtigt /\ fugt_bedre THEN {"fugt"} ELSE {})
    \cup (IF daarlig_luft THEN {"luft"} ELSE {})

IngenBeslutning(indtil) == [kommando |-> None, grund |-> None, indtil |-> indtil]

Beslutning(kommando, tekst, grunde) ==
    [kommando |-> Some(kommando), grund |-> Some([tekst |-> tekst, grunde |-> grunde]),
     indtil |-> None]

\* climate_controller.py:210, the test that selects the branch of an open
\* actuator; every other status takes the branch of a closed one
vindue_er_aaben_hvis_ikke_lukket(status) == status # "lukket"

vindue_er_aaben(status) == status = "aaben"

\* the decision once the preconditions passed (climate_controller.py:199-267);
\* ude_temp and ude_fugt are numbers here.  Of the reason text the model
\* keeps the fixed part and the set of conditions it names
vurder_maalinger(inden_temp, inden_fugt, inden_gas, ude_temp, ude_fugt, status) ==
    LET for_varmt == inden_temp > temp_hoej
        for_fugtigt == inden_fugt > fugt_hoej
        meget_daarlig_luft == inden_gas # None /\ Val(inden_gas) < gas_meget_lav
        daarlig_luft == inden_gas # None /\ Val(inden_gas) < gas_lav
        daarlig_luftkvalitet == for_varmt \/ for_fugtigt \/ daarlig_luft
        temp_ok == temp_lav <= inden_temp /\ inden_temp <= temp_hoej
        fugt_ok == fugt_lav <= inden_fugt /\ inden_fugt <= fugt_hoej
        temp_bedre == ude_temp_bedre(for_varmt, ude_temp, inden_temp)
        ude_fugt_bedre == for_fugtigt /\ ude_fugt < inden_fugt
        ude_gas_bedre == daarlig_luft
        grunde == aabne_grunde(for_varmt, temp_bedre, for_fugtigt, ude_fugt_bedre,
                               daarlig_luft)
    IN  IF vindue_er_aaben(status)
        THEN IF temp_ok /\ fugt_ok /\ gas_ok(inden_gas)
             THEN Beslutning("luk", "Indeklima optimalt", {})
             ELSE IF inden_temp < temp_lav
                  THEN Beslutning("luk", "Lukker pga kulde", {})
                  ELSE IngenBeslutning(None)
        ELSE IF ~daarlig_luftkvalitet
        THEN IngenBeslutning(None)
        ELSE IF ~(temp_bedre \/ ude_fugt_bedre \/ ude_gas_bedre)
        THEN IngenBeslutning(None)
        ELSE IF meget_daarlig_luft
        THEN Beslutning("aaben", "Meget daarligt indeklima", {"luft"})
        ELSE IF _ude_vejr_daarligt(ude_temp, ude_fugt)
        THEN Beslutning("kort_aaben", "Kort udluftning", grunde)
        ELSE Beslutning("aaben", "Aabner vindue", grunde)

\* KlimaController.vurder_klima at time t in month m; the result carries the
\* override as the call leaves it
vurder_klima(inden_temp, inden_fugt, inden_gas, ude_temp, ude_fugt, status, indtil, kommando, kommando_tid, t, m) ==
    IF inden_temp = None \/ inden_fugt = None
    THEN IngenBeslutning(indtil)
    ELSE IF override_aktiv(indtil, t)
    THEN IngenBeslutning(indtil)
    ELSE LET ude == ude_med_fallback(ude_temp, ude_fugt, m)
             ut == ude.temp
             uf == ude.fugt
             kan == _kan_sende_kommando(indtil, kommando, kommando_tid, t)
         IN  IF ~kan.ok
             THEN IngenBeslutning(kan.indtil)
             ELSE [vurder_maalinger(Val(inden_temp), Val(inden_fugt), inden_gas,
                                    ut, uf, status)
                   EXCEPT !.indtil = kan.indtil]

\* the new override, whatever the previous one (foer) was
aktiver_manuel_override_kort(t, foer) == Some(t + kort_aaben_cooldown)

aktiver_manuel_override(t, foer) == Some(t + manuel_override_varighed)

annuller_manuel_override_hvis_manuel_aaben(kommando, indtil) ==
    IF kommando = "manuel_aaben" /\ indtil # None THEN None ELSE indtil

(***************************************************************************)
(* MQTTKlient.publicer_kommando: rc_ok is the broker client's return code  *)
(* being MQTT_ERR_SUCCESS.  The method returns None on every path; udfald  *)
(* is what happened, udgivet the message the broker got.                   *)
(***************************************************************************)
publicer_kommando(er_forbundet, rc_ok, kommando, foer) ==
    IF ~er_forbundet
    THEN [udfald |-> "ikke_forbundet", udgivet |-> foer, rejser |-> FALSE]
    ELSE IF ~rc_ok
         THEN [udfald |-> "afvist", udgivet |-> foer, rejser |-> FALSE]
         ELSE [udfald |-> "ok", udgivet |-> Some(kommando), rejser |-> FALSE]

(***************************************************************************)
(* Inputs of SpecKlima                                                     *)
(***************************************************************************)
\* BME680 readings: comfortable; hot, humid, bad air; very bad air
IndeMaalinger ==
    { [temp |-> 21, fugt |-> 50, gas |-> Some(60000)],
      [temp |-> 26, fugt |-> 70, gas |-> Some(30000)],
      [temp |-> 21, fugt |-> 50, gas |-> Some(20000)] }

UdeMaalinger ==
    { [temperatur |-> None, luftfugtighed |-> None, batteri |-> None],
      [temperatur |-> Some(18), luftfugtighed |-> Some(55), batteri |-> Some(80)] }

Maaneder == {1}

TILLADTE_KOMMANDOER == {"aaben", "luk", "manuel_aaben", "manuel_luk", "kort_aaben"}

WebKommandoer == {"manuel_aaben", "manuel_luk", "luk", "stop"}

VindueStatusser == {"aaben", "lukket"}

\* the threads that call SensorData: the BME680 sampling thread, the paho
\* network thread and the asyncio thread of the web server
Traade == {"bme680", "mqtt", "web"}

\* a thread outside every with self.lås block, after nr calls
TraadUde(nr) == [pc |-> "ude", nr |-> nr, arg |-> None, kopi |-> None]

(***************************************************************************)
(* Initial states                                                          *)
(***************************************************************************)
InitBatch ==
    /\ sensor_batch = [temp |-> FALSE, fugt |-> FALSE, bat |-> FALSE]
    /\ sidste_batch_tid = 0
    /\ cyklus = [nr |-> 0, rest |-> <<>>, sendt |-> {}, aabnet |-> None,
                 gyldig |-> TRUE, afsluttet |-> TRUE]
    /\ notifikationer = 0

InitSync ==
    /\ db_sensor_data = {}
    /\ db_fejl_logs = {}
    /\ db_system_logs = {}
    /\ naeste_id = [sensor_data |-> 1, fejl_logs |-> 1, system_logs |-> 1]
    /\ sync_pc = "sover"
    /\ data = [sensor_data |-> {}, fejl_logs |-> {}, system_logs |-> {}]
    /\ forsoeg_taeller = 0
    /\ vent_tid = 30
    /\ svar = None
    /\ remote_sensor_data = {}
    /\ remote_fejl_logs = {}
    /\ remote_system_logs = {}

InitKlimaController ==
    /\ kald = <<>>
    /\ sidste_kommando = None
    /\ sidste_kommando_tid = None
    /\ manuel_override_indtil = None
    /\ auto_kommando = None
    /\ auto_grund = None

InitStore ==
    /\ bme680_data = [temperatur |-> None, luftfugtighed |-> None, gas |-> None]
    /\ vindue_status = [status |-> "ukendt", position |-> 0, max_position |-> 0]
    /\ maalt_klokken = [sensor |-> None, bme680 |-> None, vindue |-> None]
    /\ laas = None
    /\ traad = [t \in Traade |-> TraadUde(0)]
    /\ snapshot = None
    /\ historik = [sensor |-> {}, bme680 |-> {}, vindue |-> {}]

\* the workers and the main thread before main() has started them
InitDrift ==
    /\ web_svar = <<>>
    /\ sync_spor = <<>>
    /\ marker_kald = <<>>
    /\ forsoeg = 0
    /\ run_pc = "ikke_startet"
    /\ forbindelser = <<>>
    /\ hoved = [pc |-> "ikke_startet", startet |-> {}]
    /\ ned_cyklusser = 0
    /\ sensor_reference = None
    /\ koerer = [bme680 |-> TRUE, mqtt |-> TRUE, sync |-> TRUE]
    /\ stoppet = <<>>
    /\ eval_pc = "ude"
    /\ eval_laest = None
    /\ skrivere = {}
    /\ web_pc = [pc |-> "ude", kommando |-> None]
    /\ bme680_laesning = None
    /\ web_modtaget = <<>>
    /\ websocket_klienter = {}
    /\ ws_kendte = {}
    /\ ws_modtaget = [k \in Klienter |-> <<>>]
    /\ broadcast = [pc |-> "ude", nr |-> 0, besked |-> None, klienter |-> {},
                    rest |-> {}, frakoblede |-> {}, fejlede |-> {}]

\* the replication worker has been constructed and not started; nothing is
\* in the durable log (sync_client.py:20-28)
IngenRaekker == [sensor_data |-> 0, fejl_logs |-> 0, system_logs |-> 0]

NyReplikering(interval) ==
    [pc |-> "ny", interval |-> interval, usynkroniseret |-> IngenRaekker,
     data |-> IngenRaekker, forsoeg_taeller |-> 0, vent_tid |-> None]

InitReplikering == replikering = NyReplikering(SYNKRONISERINGS_INTERVAL)

\* valider_værdi has not been called
InitValider ==
    /\ valider_ind = None
    /\ valider_ud = None

InitMqtt ==
    /\ sidste_besked = None
    /\ forbundet = FALSE
    /\ udgivet = None
    /\ publish_udfald = "ingen"

\* SpecKlima starts with the outdoor part of the store as earlier outdoor
\* messages left it
InitKlima ==
    /\ now = 0
    /\ maaned \in Maaneder
    /\ InitKlimaController /\ InitStore /\ InitMqtt /\ InitBatch /\ InitSync
    /\ sensor_data \in UdeMaalinger
    /\ InitDrift
    /\ InitValider
    /\ InitReplikering
    /\ sidste_handling = "start"

(***************************************************************************)
(* Actions of SpecKlima                                                    *)
(***************************************************************************)
\* time passes
TikKlima ==
    /\ now + Tick <= MaxTid
    /\ now' = now + Tick
    /\ sidste_handling' = "tik"
    /\ UNCHANGED <<klimaVars, sensor_data, batchVars, syncVars,
                   ekstraVars, sidste_besked>>

\* MQTTKlient.on_connect
on_connect(returkode) ==
    /\ forbundet' = (returkode = 0)
    /\ sidste_handling' = "on_connect"
    /\ UNCHANGED <<now, maaned, sidste_kommando, sidste_kommando_tid,
                   manuel_override_indtil, bme680_data, vindue_status, udgivet,
                   publish_udfald, auto_kommando, auto_grund, sensor_data,
                   batchVars, syncVars,
                   ekstraVars, sidste_besked>>

\* MQTTKlient.on_message, topic vindue/status, with a well-formed payload
OnMessageVindueStatus(status) ==
    /\ vindue_status' = [status |-> status, position |-> 0, max_position |-> 0]
    /\ sidste_handling' = "on_message_vindue"
    /\ UNCHANGED <<now, maaned, sidste_kommando, sidste_kommando_tid,
                   manuel_override_indtil, bme680_data, forbundet, udgivet,
                   publish_udfald, auto_kommando, auto_grund, sensor_data,
                   batchVars, syncVars,
                   ekstraVars, sidste_besked>>

\* BME680Sensor.aflaes_sensor up to the return of vurder_klima: store the
\* reading, read the snapshot, decide
AflaesSensor(m) ==
    /\ auto_kommando = None
    /\ bme680_data' = [temperatur |-> Some(m.temp), luftfugtighed |-> Some(m.fugt),
                       gas |-> m.gas]
    /\ LET b == vurder_klima(Some(m.temp), Some(m.fugt), m.gas,
                             sensor_data.temperatur, sensor_data.luftfugtighed,
                             vindue_status.status, manuel_override_indtil,
                             sidste_kommando, sidste_kommando_tid, now, maaned)
       IN  /\ auto_kommando' = b.kommando
           /\ auto_grund' = b.grund
           /\ manuel_override_indtil' = b.indtil
    /\ sidste_handling' = "aflaes_sensor"
    /\ UNCHANGED <<now, maaned, sidste_kommando, sidste_kommando_tid, vindue_status,
                   forbundet, udgivet, publish_udfald, sensor_data, batchVars,
                   syncVars,
                   ekstraVars, sidste_besked>>

\* BME680Sensor._vurder_klima after the decision: publicer_kommando, then
\* gem_kommando (indoor_sensor.py:142-152)
SendAuto(rc_ok) ==
    /\ auto_kommando # None
    /\ LET p == publicer_kommando(forbundet, rc_ok, Val(auto_kommando), udgivet)
       IN  /\ udgivet' = p.udgivet
           /\ publish_udfald' = p.udfald
           /\ IF p.rejser
              THEN UNCHANGED <<sidste_kommando, sidste_kommando_tid>>
              ELSE /\ sidste_kommando' = auto_kommando
                   /\ sidste_kommando_tid' = Some(now)
    /\ auto_kommando' = None
    /\ auto_grund' = None
    /\ sidste_handling' = "send_auto"
    /\ UNCHANGED <<now, maaned, manuel_override_indtil, bme680_data, vindue_status,
                   forbundet, sensor_data, batchVars, syncVars,
                   ekstraVars, sidste_besked>>

\* app.py:218-227: the answer of the endpoint after the call of
\* publicer_kommando; 503 only when the call raised
kontroller_vindue_svar(rejser) == IF rejser THEN 503 ELSE 200

\* app.py kontroller_vindue / websocket vindue_command
kontroller_vindue(kommando, rc_ok) ==
    /\ IF kommando \notin TILLADTE_KOMMANDOER
       THEN UNCHANGED <<manuel_override_indtil, udgivet, publish_udfald>>
       ELSE /\ manuel_override_indtil' =
                  IF kommando \in {"manuel_aaben", "manuel_luk"}
                  THEN aktiver_manuel_override(
                           now,
                           annuller_manuel_override_hvis_manuel_aaben(
                               kommando, manuel_override_indtil))
                  ELSE manuel_override_indtil
            /\ LET p == publicer_kommando(forbundet, rc_ok, kommando, udgivet)
               IN  /\ udgivet' = p.udgivet
                   /\ publish_udfald' = p.udfald
    /\ sidste_handling' = "kontroller_vindue"
    /\ UNCHANGED <<now, maaned, sidste_kommando, sidste_kommando_tid, bme680_data,
                   vindue_status, forbundet, auto_kommando, auto_grund, sensor_data,
                   batchVars, syncVars,
                   ekstraVars, sidste_besked>>

NextKlima ==
    \/ TikKlima
    \/ \E returkode \in {0, 5} : on_connect(returkode)
    \/ \E status \in VindueStatusser : OnMessageVindueStatus(status)
    \/ \E m \in IndeMaalinger : AflaesSensor(m)
    \/ \E rc_ok \in BOOLEAN : SendAuto(rc_ok)
    \/ \E kommando \in WebKommandoer, rc_ok \in BOOLEAN : kontroller_vindue(kommando, rc_ok)

SpecKlima == InitKlima /\ [][NextKlima]_vars

(***************************************************************************)
(* Database (database.py): the local durable log.  A row carries the keys  *)
(* of its table that the replication reads (enheds_id and kilde, constant  *)
(* and never NULL, are left out).  maalt_klokken is the clock at insertion.*)
(***************************************************************************)
Dag == 86400

Ids(raekker) == {r.id : r \in raekker}
Usynkroniseret(raekker) == {r \in raekker : r.synkroniseret = 0}
Synkroniseret(raekker) == {r \in raekker : r.synkroniseret = 1}

\* gem_sensor_data / gem_fejl / gem_system_log: INSERT with the next id
gem_sensor_data(tabel, id, data_type, vaerdi, t) ==
    tabel \cup {[id |-> id, maalt_klokken |-> t, data_type |-> data_type,
                 vaerdi |-> vaerdi, synkroniseret |-> 0]}

gem_fejl(tabel, id, fejl_besked, t) ==
    tabel \cup {[id |-> id, maalt_klokken |-> t, fejl_besked |-> fejl_besked,
                 synkroniseret |-> 0]}

gem_system_log(tabel, id, besked, t) ==
    tabel \cup {[id |-> id, maalt_klokken |-> t, besked |-> besked,
                 synkroniseret |-> 0]}

\* hent_usynkroniseret_data: SELECT * ... WHERE synkroniseret = 0, per table
hent_usynkroniseret_data(sensor, fejl, logs) ==
    [sensor_data |-> Usynkroniseret(sensor),
     fejl_logs |-> Usynkroniseret(fejl),
     system_logs |-> Usynkroniseret(logs)]

\* one UPDATE ... SET synkroniseret = 1 WHERE id IN (ids) of
\* markér_som_synkroniseret
marker_alle(tabel, ids) == {[r EXCEPT !.synkroniseret = 1] : r \in tabel}

marker_som_synkroniseret(tabel, ids) ==
    {IF r.id \in ids THEN [r EXCEPT !.synkroniseret = 1] ELSE r : r \in tabel}

\* one DELETE ... WHERE målt_klokken < cutoff AND synkroniseret = 1 of
\* ryd_gammel_data(dage), at time t
ryd_gammel_data_kun_alder(tabel, dage, t) ==
    {r \in tabel : ~(r.maalt_klokken < t - dage * Dag)}

ryd_gammel_data(tabel, dage, t) ==
    {r \in tabel : ~(r.maalt_klokken < t - dage * Dag /\ r.synkroniseret = 1)}

(***************************************************************************)
(* Remote collector (remote_server.py), POST /api/sync                     *)
(***************************************************************************)
\* dict.get(key): None when the key is missing
Get(raekke, noegle) == IF noegle \in DOMAIN raekke THEN Some(raekke[noegle]) ELSE None

\* valider_sensor_værdi: float(None) raises TypeError, which yields None
valider_sensor_vaerdi(vaerdi, min_vaerdi, max_vaerdi) ==
    IF vaerdi = None THEN None
    ELSE IF Val(vaerdi) < min_vaerdi \/ Val(vaerdi) > max_vaerdi THEN None
    ELSE vaerdi

\* the value of a sensor row as modtag_data validates it (remote_server.py:273-284)
valideret_vaerdi(raekke) ==
    LET vaerdi == Get(raekke, "value")
        data_type == Get(raekke, "data_type")
    IN  IF data_type = Some("temperatur") THEN valider_sensor_vaerdi(vaerdi, -40, 85)
        ELSE IF data_type = Some("luftfugtighed") THEN valider_sensor_vaerdi(vaerdi, 0, 100)
        ELSE IF data_type = Some("batteri") THEN valider_sensor_vaerdi(vaerdi, 0, 100)
        ELSE IF data_type = Some("gas") THEN valider_sensor_vaerdi(vaerdi, 0, 500000)
        ELSE vaerdi

\* the rows of the remote tables keep, as lokal_id, the id of the local row
\* they were made from (the collector itself stores no such column)
sensor_vaerdier(raekker) ==
    {[lokal_id |-> r.id, maalt_klokken |-> Get(r, "maalt_klokken"),
      data_type |-> Get(r, "data_type"), vaerdi |-> valideret_vaerdi(r)] :
        r \in {x \in raekker : valideret_vaerdi(x) # None}}

fejl_vaerdier(raekker) ==
    {[lokal_id |-> r.id, maalt_klokken |-> Get(r, "maalt_klokken"),
      fejl_besked |-> Get(r, "fejlbesked")] : r \in raekker}

log_vaerdier(raekker) ==
    {[lokal_id |-> r.id, maalt_klokken |-> Get(r, "maalt_klokken"),
      besked |-> Get(r, "besked")] : r \in raekker}

\* a NOT NULL column of the remote schema receives None: psycopg2 raises
BryderNotNull(raekker, kolonne) == \E r \in raekker : r[kolonne] = None

\* modtag_data: token_ok is verificer_token passing, pg_fejl a psycopg2.Error
\* from the connection or the commit.  Returns the status and the tables.
modtag_data(payload, token_ok, pg_fejl, r_sensor, r_fejl, r_logs) ==
    LET uaendret(status) == [status |-> status, sensor_data |-> r_sensor,
                             fejl_logs |-> r_fejl, system_logs |-> r_logs]
        nye_sensor == sensor_vaerdier(payload.sensor_data)
        nye_fejl == fejl_vaerdier(payload.fejl_logs)
        nye_logs == log_vaerdier(payload.system_logs)
    IN  IF ~token_ok THEN uaendret(401)
        ELSE IF pg_fejl THEN uaendret(500)
        ELSE IF \/ BryderNotNull(nye_sensor, "maalt_klokken")
                \/ BryderNotNull(nye_fejl, "maalt_klokken")
                \/ BryderNotNull(nye_fejl, "fejl_besked")
                \/ BryderNotNull(nye_logs, "maalt_klokken")
                \/ BryderNotNull(nye_logs, "besked")
        THEN uaendret(500)
        ELSE [status |-> 200,
              sensor_data |-> r_sensor \cup nye_sensor,
              fejl_logs |-> r_fejl \cup nye_fejl,
              system_logs |-> r_logs \cup nye_logs]

(***************************************************************************)
(* SyncKlient (sync_client.py)                                             *)
(***************************************************************************)
\* the wait the run loop computes after sync_data (sync_client.py:50-59)
beregn_vent_tid(taeller) ==
    IF taeller > 0
    THEN LET eksponent == IF taeller < 3 THEN taeller ELSE 3
             ny_tid == SYNKRONISERINGS_INTERVAL * (2 ^ eksponent)
         IN  IF ny_tid < 2400 THEN ny_tid ELSE 2400
    ELSE SYNKRONISERINGS_INTERVAL

\* forsøg_tæller after a failed network call (sync_client.py:121, 133)
efter_fejl_nulstil(taeller) == 0

efter_fejl(taeller) == taeller + 1

\* forsøg_tæller after a 200 response (sync_client.py:110)
efter_succes_uaendret(taeller) == taeller

efter_succes(taeller) == 0

Netvaerk == {"svar", "timeout_uden_levering", "timeout_efter_levering", "forbindelsesfejl"}

DataTyper == {"temperatur"}

\* the clock values of SpecSync: the start, and past the retention window
SyncTider == {0, 8 * Dag}

InitSyncSpec ==
    /\ now = 0
    /\ maaned = 1
    /\ InitKlimaController /\ InitStore /\ InitMqtt /\ InitBatch /\ InitSync
    /\ sensor_data = [temperatur |-> None, luftfugtighed |-> None, batteri |-> None]
    /\ InitDrift
    /\ InitValider
    /\ InitReplikering
    /\ sidste_handling = "start"

ikkeSyncVars == <<klimaVars, sensor_data, batchVars, laasVars, kald, andreVars,
                  sidste_besked>>

\* more than the retention window passes
TidGaar ==
    /\ now' \in SyncTider
    /\ now' > now
    /\ sidste_handling' = "tid_gaar"
    /\ UNCHANGED <<ikkeSyncVars, syncVars, sync_spor>>

\* another worker appends a reading, an error or an event to the durable log
GemSensorData(data_type) ==
    /\ naeste_id.sensor_data <= MaxId
    /\ db_sensor_data' = gem_sensor_data(db_sensor_data, naeste_id.sensor_data,
                                         data_type, 21, now)
    /\ naeste_id' = [naeste_id EXCEPT !.sensor_data = @ + 1]
    /\ sidste_handling' = "gem"
    /\ UNCHANGED <<now, ikkeSyncVars, sync_spor, db_fejl_logs, db_system_logs, sync_pc, data,
                   forsoeg_taeller, vent_tid, svar, remote_sensor_data,
                   remote_fejl_logs, remote_system_logs>>

GemFejl ==
    /\ naeste_id.fejl_logs <= MaxId
    /\ db_fejl_logs' = gem_fejl(db_fejl_logs, naeste_id.fejl_logs, "fejl", now)
    /\ naeste_id' = [naeste_id EXCEPT !.fejl_logs = @ + 1]
    /\ sidste_handling' = "gem"
    /\ UNCHANGED <<now, ikkeSyncVars, sync_spor, db_sensor_data, db_system_logs, sync_pc, data,
                   forsoeg_taeller, vent_tid, svar, remote_sensor_data,
                   remote_fejl_logs, remote_system_logs>>

GemSystemLog ==
    /\ naeste_id.system_logs <= MaxId
    /\ db_system_logs' = gem_system_log(db_system_logs, naeste_id.system_logs,
                                        "besked", now)
    /\ naeste_id' = [naeste_id EXCEPT !.system_logs = @ + 1]
    /\ sidste_handling' = "gem"
    /\ UNCHANGED <<now, ikkeSyncVars, sync_spor, db_sensor_data, db_fejl_logs, sync_pc, data,
                   forsoeg_taeller, vent_tid, svar, remote_sensor_data,
                   remote_fejl_logs, remote_system_logs>>

\* the calls sync_data makes to the durable log before requests.post
\* (sync_client.py:66-78): the fetch, and the sweep unless nothing was fetched
sync_data_kald_altid_ryd(tom, ryd_ok) ==
    <<"hent_usynkroniseret_data",
      IF ryd_ok THEN "ryd_gammel_data" ELSE "ryd_gammel_data_fejlet">>

sync_data_kald(tom, ryd_ok) ==
    IF tom
    THEN <<"hent_usynkroniseret_data">>
    ELSE <<"hent_usynkroniseret_data",
           IF ryd_ok THEN "ryd_gammel_data" ELSE "ryd_gammel_data_fejlet">>

\* SyncKlient.sync_data up to requests.post: fetch, return early when there
\* is nothing (the run loop then computes the wait), else sweep.  ryd_ok:
\* the DELETEs of ryd_gammel_data succeed; when they do not, the method
\* rolls back, prints and returns (0, 0, 0) (database.py:288-290), so the
\* except branch of sync_data (sync_client.py:77-78) is never entered.
SyncHent(ryd_ok) ==
    /\ sync_pc = "sover"
    /\ LET hentet == hent_usynkroniseret_data(db_sensor_data, db_fejl_logs,
                                              db_system_logs)
           tom == hentet.sensor_data = {} /\ hentet.fejl_logs = {}
                  /\ hentet.system_logs = {}
       IN  /\ data' = hentet
           /\ sync_spor' = sync_data_kald(tom, ryd_ok)
           /\ IF tom
              THEN /\ vent_tid' = beregn_vent_tid(forsoeg_taeller)
                   /\ UNCHANGED <<sync_pc, db_sensor_data, db_fejl_logs, db_system_logs>>
              ELSE /\ sync_pc' = "sender"
                   /\ IF ryd_ok
                      THEN /\ db_sensor_data' = ryd_gammel_data(db_sensor_data, 7, now)
                           /\ db_fejl_logs' = ryd_gammel_data(db_fejl_logs, 7, now)
                           /\ db_system_logs' = ryd_gammel_data(db_system_logs, 7, now)
                      ELSE UNCHANGED <<db_sensor_data, db_fejl_logs, db_system_logs>>
                   /\ UNCHANGED vent_tid
    /\ sidste_handling' = "sync_hent"
    /\ UNCHANGED <<now, ikkeSyncVars, naeste_id, forsoeg_taeller, svar,
                   remote_sensor_data, remote_fejl_logs, remote_system_logs>>

\* SyncKlient.sync_data from requests.post on, and the wait of the run loop.
\* log_ok: the INSERT of the client's own log row succeeds (gem_fejl and
\* gem_system_log swallow every exception).
SyncSend(netvaerk, token_ok, pg_fejl, log_ok) ==
    /\ sync_pc = "sender"
    /\ LET leveret == netvaerk \in {"svar", "timeout_efter_levering"}
           r == IF leveret
                THEN modtag_data(data, token_ok, pg_fejl, remote_sensor_data,
                                 remote_fejl_logs, remote_system_logs)
                ELSE [status |-> 0, sensor_data |-> remote_sensor_data,
                      fejl_logs |-> remote_fejl_logs,
                      system_logs |-> remote_system_logs]
           succes == netvaerk = "svar" /\ r.status = 200
       IN  /\ remote_sensor_data' = r.sensor_data
           /\ remote_fejl_logs' = r.fejl_logs
           /\ remote_system_logs' = r.system_logs
           /\ svar' = Some([status |-> IF netvaerk = "svar" THEN r.status ELSE 0,
                            forsoeg_foer |-> forsoeg_taeller])
           /\ IF succes
              THEN /\ log_ok => naeste_id.system_logs <= MaxId
                   /\ db_sensor_data' =
                          marker_som_synkroniseret(db_sensor_data, Ids(data.sensor_data))
                   /\ db_fejl_logs' =
                          marker_som_synkroniseret(db_fejl_logs, Ids(data.fejl_logs))
                   /\ LET markeret == marker_som_synkroniseret(db_system_logs,
                                                               Ids(data.system_logs))
                      IN  IF log_ok
                          THEN /\ db_system_logs' =
                                      gem_system_log(markeret, naeste_id.system_logs,
                                                     "Upload succes", now)
                               /\ naeste_id' = [naeste_id EXCEPT !.system_logs = @ + 1]
                          ELSE /\ db_system_logs' = markeret
                               /\ UNCHANGED naeste_id
                   /\ forsoeg_taeller' = efter_succes(forsoeg_taeller)
              ELSE /\ forsoeg_taeller < MaxForsoeg
                   /\ log_ok => naeste_id.fejl_logs <= MaxId
                   /\ IF log_ok
                      THEN /\ db_fejl_logs' = gem_fejl(db_fejl_logs, naeste_id.fejl_logs,
                                                       "Upload fejlede", now)
                           /\ naeste_id' = [naeste_id EXCEPT !.fejl_logs = @ + 1]
                      ELSE UNCHANGED <<db_fejl_logs, naeste_id>>
                   /\ forsoeg_taeller' = efter_fejl(forsoeg_taeller)
                   /\ UNCHANGED <<db_sensor_data, db_system_logs>>
    /\ vent_tid' = beregn_vent_tid(forsoeg_taeller')
    /\ sync_pc' = "sover"
    /\ sync_spor' = sync_spor \o (IF Val(svar').status = 200
                                  THEN <<"post", "marker_som_synkroniseret">>
                                  ELSE <<"post">>)
    /\ sidste_handling' = "sync_send"
    /\ UNCHANGED <<now, ikkeSyncVars, data>>

NextSync ==
    \/ TidGaar
    \/ \E data_type \in DataTyper : GemSensorData(data_type)
    \/ GemFejl
    \/ GemSystemLog
    \/ \E ryd_ok \in BOOLEAN : SyncHent(ryd_ok)
    \/ \E netvaerk \in Netvaerk, token_ok \in BOOLEAN, pg_fejl \in BOOLEAN,
          log_ok \in BOOLEAN : SyncSend(netvaerk, token_ok, pg_fejl, log_ok)

SpecSync == InitSyncSpec /\ [][NextSync]_vars

(***************************************************************************)
(* MQTTKlient.on_message, outdoor topics, and the pending batch (mqtt.py)  *)
(* A payload value is None (key missing) or an integer JSON number.        *)
(***************************************************************************)
BATCH_TIMEOUT == 2
SLEEP_TID == 900

\* valider_værdi on an integer: FLOAT_VALIDERING matches it, then the range
valider_vaerdi(vaerdi, min_vaerdi, max_vaerdi) ==
    IF vaerdi = None THEN None
    ELSE IF Val(vaerdi) < min_vaerdi \/ Val(vaerdi) > max_vaerdi THEN None
    ELSE vaerdi

\* valider_heltal on an integer: POSITIV_VALIDERING rejects a minus sign
valider_heltal(vaerdi, min_vaerdi, max_vaerdi) ==
    IF vaerdi = None THEN None
    ELSE IF Val(vaerdi) < 0 THEN None
    ELSE IF Val(vaerdi) < min_vaerdi \/ Val(vaerdi) > max_vaerdi THEN None
    ELSE vaerdi

\* the validation on_message applies per topic (mqtt.py:201-205, 226-230, 251-255)
valider_emne(emne, vaerdi) ==
    IF emne = "temp" THEN valider_vaerdi(vaerdi, -25, 40)
    ELSE valider_heltal(vaerdi, 0, 100)

Emner == {"temp", "fugt", "bat"}

\* payload values per topic, the last one of each out of range
Payloads == [temp |-> {18, 50}, fugt |-> {55, 101}, bat |-> {80, -1}]

\* the arrival orders of a cycle: all three messages, or two of them
Ordener ==
    {o \in UNION {[1..n -> Emner] : n \in 2..3} :
        \A i, j \in DOMAIN o : i # j => o[i] # o[j]}

StoreNoegle(emne) ==
    IF emne = "temp" THEN "temperatur"
    ELSE IF emne = "fugt" THEN "luftfugtighed" ELSE "batteri"

InitBatchSpec ==
    /\ now = SLEEP_TID
    /\ maaned = 1
    /\ InitKlimaController /\ InitStore /\ InitMqtt /\ InitBatch /\ InitSync
    /\ sensor_data = [temperatur |-> None, luftfugtighed |-> None, batteri |-> None]
    /\ InitDrift
    /\ InitValider
    /\ InitReplikering
    /\ sidste_handling = "start"

ikkeBatchVars == <<klimaVars, sync_pc, data, forsoeg_taeller, vent_tid, svar,
                   remote_sensor_data, remote_fejl_logs, remote_system_logs,
                   ekstraVars>>
dbVars == <<db_sensor_data, db_fejl_logs, db_system_logs, naeste_id>>

\* the ESP32 sensor wakes up and sends a cycle's messages, which arrive in
\* the order orden; gyldig tells whether all of them carry valid values
StartCyklus(orden) ==
    /\ cyklus.afsluttet
    /\ cyklus.nr < MaxCyklusser
    /\ cyklus' = [nr |-> cyklus.nr + 1,
                  rest |-> orden, sendt |-> {orden[i] : i \in DOMAIN orden},
                  aabnet |-> None, gyldig |-> TRUE, afsluttet |-> FALSE]
    /\ now' = IF cyklus.nr = 0 THEN now ELSE Val(cyklus.aabnet) + SLEEP_TID
    /\ notifikationer' = 0
    /\ sidste_handling' = "start_cyklus"
    /\ UNCHANGED <<ikkeBatchVars, dbVars, sensor_data, sensor_batch, sidste_batch_tid,
                   sidste_besked>>

\* a second passes while messages of the cycle are still on their way; all
\* of them arrive less than BATCH_TIMEOUT after the first
TikBatch ==
    /\ cyklus.rest # <<>> /\ cyklus.aabnet # None
    /\ now + 1 - Val(cyklus.aabnet) < BATCH_TIMEOUT
    /\ now' = now + 1
    /\ sidste_handling' = "tik"
    /\ UNCHANGED <<ikkeBatchVars, dbVars, sensor_data, batchVars, sidste_besked>>

\* on_message for the next message of the cycle, with payload value vaerdi;
\* the INSERT of gem_sensor_data / gem_fejl succeeds
OnMessageSensor(vaerdi) ==
    /\ cyklus.rest # <<>>
    /\ LET emne == Head(cyklus.rest)
           gyldig == valider_emne(emne, Some(vaerdi))
           batch == [sensor_batch EXCEPT ![emne] = TRUE]
           alt_modtaget == \A e \in Emner : batch[e]
           timeout == now - sidste_batch_tid > BATCH_TIMEOUT
           lukker == emne = "bat" /\ (alt_modtaget \/ timeout)
       IN  /\ vaerdi \in Payloads[emne]
           /\ cyklus' = [cyklus EXCEPT !.rest = Tail(@),
                                       !.aabnet = IF @ = None THEN Some(now) ELSE @,
                                       !.gyldig = @ /\ gyldig # None]
           /\ IF gyldig = None
              THEN /\ db_fejl_logs' = gem_fejl(db_fejl_logs, naeste_id.fejl_logs,
                                               "Ugyldig " \o emne, now)
                   /\ naeste_id' = [naeste_id EXCEPT !.fejl_logs = @ + 1]
                   /\ UNCHANGED <<db_sensor_data, sensor_data, sensor_batch,
                                  sidste_batch_tid, notifikationer>>
              ELSE /\ db_sensor_data' = gem_sensor_data(db_sensor_data,
                                             naeste_id.sensor_data,
                                             StoreNoegle(emne), Val(gyldig), now)
                   /\ naeste_id' = [naeste_id EXCEPT !.sensor_data = @ + 1]
                   /\ db_fejl_logs' = db_fejl_logs
                   /\ sensor_data' = [sensor_data EXCEPT ![StoreNoegle(emne)] = gyldig]
                   /\ sensor_batch' = IF lukker
                                      THEN [e \in Emner |-> FALSE]
                                      ELSE batch
                   /\ sidste_batch_tid' = IF emne = "bat" /\ ~lukker
                                          THEN sidste_batch_tid
                                          ELSE now
                   /\ notifikationer' = IF lukker
                                        THEN notifikationer + 1
                                        ELSE notifikationer
    /\ sidste_besked' = Some([emne |-> Head(cyklus.rest), payload |-> Some(vaerdi)])
    /\ sidste_handling' = "on_message_sensor"
    /\ UNCHANGED <<now, ikkeBatchVars, db_system_logs>>

\* every message of the cycle has arrived and the batch timeout, counted from
\* the first of them, has expired
AfslutCyklus ==
    /\ cyklus.rest = <<>> /\ ~cyklus.afsluttet
    /\ now' = Val(cyklus.aabnet) + BATCH_TIMEOUT + 1
    /\ cyklus' = [cyklus EXCEPT !.afsluttet = TRUE]
    /\ sidste_handling' = "afslut_cyklus"
    /\ UNCHANGED <<ikkeBatchVars, dbVars, sensor_data, sensor_batch,
                   sidste_batch_tid, notifikationer, sidste_besked>>

NextBatch ==
    \/ \E orden \in Ordener : StartCyklus(orden)
    \/ TikBatch
    \/ \E vaerdi \in UNION {Payloads[e] : e \in Emner} : OnMessageSensor(vaerdi)
    \/ AfslutCyklus

SpecBatch == InitBatchSpec /\ [][NextBatch]_vars

(***************************************************************************)
(* SensorData (sensor_data.py) under concurrent callers.  Every method     *)
(* body is a with self.lås block; inside it each assignment and each       *)
(* dict.copy() is a step of its own.                                       *)
(***************************************************************************)
\* threading.Lock.acquire: only a free lock can be taken
kan_tage_laas_altid(l) == TRUE

kan_tage_laas(l) == l = None

\* dict.update(status_data): the keys of status_data replace, the rest stay
opdater_vindue_status(gammel, status_data) ==
    [k \in DOMAIN gammel |->
        IF k \in DOMAIN status_data THEN status_data[k] ELSE gammel[k]]

\* a dict of the store as a reader sees it: the data keys and 'målt_klokken'
DictSensor == [data |-> sensor_data, maalt_klokken |-> maalt_klokken.sensor]
DictBme680 == [data |-> bme680_data, maalt_klokken |-> maalt_klokken.bme680]
DictVindue == [data |-> vindue_status, maalt_klokken |-> maalt_klokken.vindue]

\* the calls each thread makes
StoreKald ==
    [bme680 |-> {[op |-> "opdater_bme680_data", temp |-> Some(21), fugt |-> Some(50),
                  gas |-> Some(60000)],
                 [op |-> "opdater_bme680_data", temp |-> Some(26), fugt |-> Some(70),
                  gas |-> None]},
     mqtt |-> {[op |-> "opdater_vindue_status",
                status_data |-> [status |-> "aaben", position |-> 50,
                                 max_position |-> 200]],
               [op |-> "opdater_sensor_data", noegle |-> "temperatur", vaerdi |-> 18]},
     web |-> {[op |-> "hent_alle_data"]}]

\* the first statement inside the with block of a method
FoersteTrin(op) ==
    IF op = "opdater_bme680_data" THEN "temperatur"
    ELSE IF op = "opdater_vindue_status" THEN "update"
    ELSE IF op = "opdater_sensor_data" THEN "vaerdi"
    ELSE "sensor"

InitStoreSpec ==
    /\ now = 0
    /\ maaned = 1
    /\ InitKlimaController /\ InitStore /\ InitMqtt /\ InitBatch /\ InitSync
    /\ sensor_data = [temperatur |-> None, luftfugtighed |-> None, batteri |-> None]
    /\ InitDrift
    /\ InitValider
    /\ InitReplikering
    /\ sidste_handling = "start"

ikkeStoreVars == <<maaned, sidste_kommando, sidste_kommando_tid, manuel_override_indtil,
                   forbundet, udgivet, publish_udfald, auto_kommando, auto_grund,
                   batchVars, syncVars, kald, driftVars, sidste_besked>>

\* the clock of datetime.now() moves on
TikStore ==
    /\ now < MaxStoreTid
    /\ now' = now + 1
    /\ sidste_handling' = "tik"
    /\ UNCHANGED <<ikkeStoreVars, sensor_data, bme680_data, vindue_status, laasVars>>

\* thread t calls a method of the store and enters its with self.lås block
TagLaas(t, k) ==
    /\ traad[t].pc = "ude" /\ traad[t].nr < MaxKald
    /\ k \in StoreKald[t]
    /\ kan_tage_laas(laas)
    /\ laas' = Some(t)
    /\ traad' = [traad EXCEPT ![t] = [pc |-> FoersteTrin(k.op), nr |-> @.nr + 1,
                                      arg |-> Some(k), kopi |-> None]]
    /\ sidste_handling' = "tag_laas"
    /\ UNCHANGED <<now, ikkeStoreVars, sensor_data, bme680_data, vindue_status,
                   maalt_klokken, snapshot, historik>>

\* the next assignment of an opdater_* method (sensor_data.py:46-48, 58-62, 67-68)
SkrivFelt(t) ==
    /\ traad[t].pc \in {"temperatur", "luftfugtighed", "gas", "update", "vaerdi",
                        "maalt_klokken"}
    /\ LET k == Val(traad[t].arg)
           pc == traad[t].pc
       IN  /\ bme680_data' =
                  IF pc = "temperatur" THEN [bme680_data EXCEPT !.temperatur = k.temp]
                  ELSE IF pc = "luftfugtighed"
                       THEN [bme680_data EXCEPT !.luftfugtighed = k.fugt]
                  ELSE IF pc = "gas" THEN [bme680_data EXCEPT !.gas = k.gas]
                  ELSE bme680_data
           /\ vindue_status' =
                  IF pc = "update"
                  THEN opdater_vindue_status(vindue_status, k.status_data)
                  ELSE vindue_status
           /\ sensor_data' =
                  IF pc = "vaerdi"
                  THEN [sensor_data EXCEPT ![k.noegle] = Some(k.vaerdi)]
                  ELSE sensor_data
           /\ maalt_klokken' =
                  IF pc # "maalt_klokken" THEN maalt_klokken
                  ELSE IF k.op = "opdater_bme680_data"
                       THEN [maalt_klokken EXCEPT !.bme680 = Some(now)]
                  ELSE IF k.op = "opdater_vindue_status"
                       THEN [maalt_klokken EXCEPT !.vindue = Some(now)]
                  ELSE [maalt_klokken EXCEPT !.sensor = Some(now)]
           /\ traad' = [traad EXCEPT ![t].pc =
                  IF pc = "temperatur" THEN "luftfugtighed"
                  ELSE IF pc = "luftfugtighed" THEN "gas"
                  ELSE IF pc = "maalt_klokken" THEN "slip"
                  ELSE "maalt_klokken"]
    /\ sidste_handling' = "skriv_felt"
    /\ UNCHANGED <<now, ikkeStoreVars, laas, snapshot, historik>>

\* the next .copy() of hent_alle_data (sensor_data.py:78-82)
KopierDict(t) ==
    /\ traad[t].pc \in {"sensor", "bme680", "vindue"}
    /\ LET pc == traad[t].pc
           foer == IF traad[t].kopi = None
                   THEN [sensor |-> None, bme680 |-> None, vindue |-> None]
                   ELSE Val(traad[t].kopi)
           kopi == IF pc = "sensor" THEN DictSensor
                   ELSE IF pc = "bme680" THEN DictBme680 ELSE DictVindue
       IN  traad' = [traad EXCEPT ![t].kopi = Some([foer EXCEPT ![pc] = Some(kopi)]),
                                  ![t].pc = IF pc = "sensor" THEN "bme680"
                                            ELSE IF pc = "bme680" THEN "vindue"
                                            ELSE "slip"]
    /\ sidste_handling' = "kopier_dict"
    /\ UNCHANGED <<now, ikkeStoreVars, sensor_data, bme680_data, vindue_status, laas,
                   maalt_klokken, snapshot, historik>>

\* the with block ends: the lock is released and the method returns
SlipLaas(t) ==
    /\ traad[t].pc = "slip"
    /\ laas' = None
    /\ LET op == Val(traad[t].arg).op
       IN  /\ snapshot' = IF op = "hent_alle_data"
                          THEN Some([d \in {"sensor", "bme680", "vindue"} |->
                                        Val(Val(traad[t].kopi)[d])])
                          ELSE snapshot
           /\ historik' =
                  IF op = "opdater_bme680_data"
                  THEN [historik EXCEPT !.bme680 = @ \cup {DictBme680}]
                  ELSE IF op = "opdater_vindue_status"
                  THEN [historik EXCEPT !.vindue = @ \cup {DictVindue}]
                  ELSE IF op = "opdater_sensor_data"
                  THEN [historik EXCEPT !.sensor = @ \cup {DictSensor}]
                  ELSE historik
    /\ traad' = [traad EXCEPT ![t] = TraadUde(@.nr)]
    /\ sidste_handling' = "slip_laas"
    /\ UNCHANGED <<now, ikkeStoreVars, sensor_data, bme680_data, vindue_status,
                   maalt_klokken>>

NextStore ==
    \/ TikStore
    \/ \E t \in Traade : \E k \in StoreKald[t] : TagLaas(t, k)
    \/ \E t \in Traade : SkrivFelt(t)
    \/ \E t \in Traade : KopierDict(t)
    \/ \E t \in Traade : SlipLaas(t)

SpecStore == InitStoreSpec /\ [][NextStore]_vars

(***************************************************************************)
(* MQTTKlient.on_message, topic vindue/status (mqtt.py:285-319).  A        *)
(* payload is a record of the three keys, None for a key it lacks.         *)
(***************************************************************************)
\* dict.get(noegle, standard)
PayloadGet(payload, noegle, standard) ==
    IF payload[noegle] = None THEN standard ELSE Val(payload[noegle])

\* the status the branch reads, and the dict it hands to the store
vindue_ny_status(payload) ==
    LET status == PayloadGet(payload, "status", "ukendt")
        pos == valider_heltal(Some(PayloadGet(payload, "position", 0)), 0, 4096)
        max_pos == valider_heltal(Some(PayloadGet(payload, "max_position", 0)), 0, 4096)
    IN  [status_ok |-> status \in {"aaben", "lukket", "ukendt"},
         ny_status |-> [status |-> status,
                        position |-> IF pos # None THEN Val(pos) ELSE 0,
                        max_position |-> IF max_pos # None THEN Val(max_pos) ELSE 0]]

VinduePayloads ==
    [status : {None, Some("aaben"), Some("defekt")},
     position : {None, Some(50), Some(5000)},
     max_position : {None, Some(200)}]

\* rows of the durable log written by the vindue/status branch
VindueRaekker ==
    Cardinality({r \in db_sensor_data : r.data_type = "position"})
    + Cardinality({r \in db_fejl_logs : r.fejl_besked = "Ugyldig vindue status"})

OnMessageVindue(payload) ==
    /\ VindueRaekker < MaxVindueBeskeder
    /\ LET v == vindue_ny_status(payload)
       IN  IF v.status_ok
           THEN /\ vindue_status' = opdater_vindue_status(vindue_status, v.ny_status)
                /\ maalt_klokken' = [maalt_klokken EXCEPT !.vindue = Some(now)]
                /\ db_sensor_data' = gem_sensor_data(db_sensor_data,
                                         naeste_id.sensor_data, "position",
                                         v.ny_status.position, now)
                /\ naeste_id' = [naeste_id EXCEPT !.sensor_data = @ + 1]
                /\ UNCHANGED db_fejl_logs
           ELSE /\ db_fejl_logs' = gem_fejl(db_fejl_logs, naeste_id.fejl_logs,
                                            "Ugyldig vindue status", now)
                /\ naeste_id' = [naeste_id EXCEPT !.fejl_logs = @ + 1]
                /\ UNCHANGED <<vindue_status, maalt_klokken, db_sensor_data>>
    /\ sidste_besked' = Some([emne |-> "vindue", payload |-> Some(payload)])
    /\ sidste_handling' = "on_message_vindue"
    /\ UNCHANGED <<now, maaned, sidste_kommando, sidste_kommando_tid,
                   manuel_override_indtil, bme680_data, forbundet, udgivet,
                   publish_udfald, auto_kommando, auto_grund, sensor_data, batchVars,
                   db_system_logs, sync_pc, data, forsoeg_taeller, vent_tid, svar,
                   remote_sensor_data, remote_fejl_logs, remote_system_logs,
                   laas, traad, snapshot, historik, kald, driftVars>>

\* the messages of MQTTKlient.on_message: an outdoor cycle in the order the
\* sensor publishes it, and actuator status messages
NextIndgang ==
    \/ StartCyklus(<<"temp", "fugt", "bat">>)
    \/ \E vaerdi \in UNION {Payloads[e] : e \in Emner} : OnMessageSensor(vaerdi)
    \/ AfslutCyklus
    \/ \E payload \in VinduePayloads : OnMessageVindue(payload)

SpecIndgang == InitBatchSpec /\ [][NextIndgang]_vars

(***************************************************************************)
(* The override entry points of KlimaController, called one by one         *)
(* (climate_controller.py:128-160)                                         *)
(***************************************************************************)
ManuelleKommandoer == {"manuel_aaben", "manuel_luk"}

ikkeOverrideVars == <<maaned, sidste_kommando, sidste_kommando_tid, bme680_data,
                      vindue_status, forbundet, udgivet, publish_udfald, auto_kommando,
                      auto_grund, sensor_data, batchVars, db_sensor_data, db_fejl_logs,
                      sync_pc, data, forsoeg_taeller, vent_tid, svar,
                      remote_sensor_data, remote_fejl_logs, remote_system_logs,
                      laasVars, driftVars, sidste_besked>>

TikOverride ==
    /\ now + Tick <= MaxTid
    /\ now' = now + Tick
    /\ sidste_handling' = "tik"
    /\ UNCHANGED <<ikkeOverrideVars, manuel_override_indtil, kald, db_system_logs,
                   naeste_id>>

\* KlimaController.aktiver_manuel_override(kommando)
AktiverManuelOverride(kommando) ==
    /\ Len(kald) < MaxOverrideKald
    /\ manuel_override_indtil' = aktiver_manuel_override(now, manuel_override_indtil)
    /\ db_system_logs' = gem_system_log(db_system_logs, naeste_id.system_logs,
                                        "Manuel override aktiveret", now)
    /\ naeste_id' = [naeste_id EXCEPT !.system_logs = @ + 1]
    /\ kald' = Append(kald, [metode |-> "aktiver_manuel_override",
                             kommando |-> kommando, tid |-> now])
    /\ sidste_handling' = "aktiver_manuel_override"
    /\ UNCHANGED <<now, ikkeOverrideVars>>

\* KlimaController.annuller_manuel_override_hvis_manuel_åben(kommando)
AnnullerManuelOverride(kommando) ==
    /\ Len(kald) < MaxOverrideKald
    /\ manuel_override_indtil' =
           annuller_manuel_override_hvis_manuel_aaben(kommando, manuel_override_indtil)
    /\ IF manuel_override_indtil' # manuel_override_indtil
       THEN /\ db_system_logs' = gem_system_log(db_system_logs, naeste_id.system_logs,
                                     "Eksisterende manuel override aflyst", now)
            /\ naeste_id' = [naeste_id EXCEPT !.system_logs = @ + 1]
       ELSE UNCHANGED <<db_system_logs, naeste_id>>
    /\ kald' = Append(kald, [metode |-> "annuller_manuel_override_hvis_manuel_aaben",
                             kommando |-> kommando, tid |-> now])
    /\ sidste_handling' = "annuller_manuel_override"
    /\ UNCHANGED <<now, ikkeOverrideVars>>

NextOverride ==
    \/ TikOverride
    \/ \E kommando \in ManuelleKommandoer : AktiverManuelOverride(kommando)
    \/ \E kommando \in ManuelleKommandoer : AnnullerManuelOverride(kommando)

SpecOverride == InitSyncSpec /\ [][NextOverride]_vars

(***************************************************************************)
(* KlimaController.vurder_klima as a function of its inputs: SpecBeslut    *)
(* starts in every combination of clock, month, cooldown state, override,  *)
(* actuator state and outdoor values below, and evaluates indoor readings. *)
(***************************************************************************)
BeslutTider == {0, 600, 900, 1800}

BeslutMaaneder == {1, 7}

\* (sidste_kommando, sidste_kommando_tid) as gem_kommando leaves them
BeslutSidsteKommando ==
    {<<None, None>>}
    \cup {<<Some(k), Some(0)>> : k \in {"aaben", "luk", "kort_aaben"}}

BeslutOverride == {None, Some(1000)}

BeslutStatus == {"aaben", "lukket", "ukendt"}

BeslutUde ==
    [temperatur : {None, Some(5), Some(18), Some(30)},
     luftfugtighed : {None, Some(55), Some(97)},
     batteri : {Some(80)}]

BeslutInde ==
    [temp : {17, 21, 22, 26},
     fugt : {35, 50, 60, 70},
     gas : {None, Some(20000), Some(30000), Some(45000), Some(60000)}]

\* the state earlier commands, web requests and messages left behind
InitBeslut ==
    /\ now \in BeslutTider
    /\ maaned \in BeslutMaaneder
    /\ InitMqtt /\ InitBatch /\ InitSync
    /\ sensor_data \in BeslutUde
    /\ \E sk \in BeslutSidsteKommando :
           sidste_kommando = sk[1] /\ sidste_kommando_tid = sk[2]
    /\ manuel_override_indtil \in BeslutOverride
    /\ vindue_status \in [status : BeslutStatus, position : {0}, max_position : {0}]
    /\ bme680_data = [temperatur |-> None, luftfugtighed |-> None, gas |-> None]
    /\ auto_kommando = None
    /\ auto_grund = None
    /\ kald = <<>>
    /\ maalt_klokken = [sensor |-> None, bme680 |-> None, vindue |-> None]
    /\ laas = None
    /\ traad = [t \in Traade |-> TraadUde(0)]
    /\ snapshot = None
    /\ historik = [sensor |-> {}, bme680 |-> {}, vindue |-> {}]
    /\ InitDrift
    /\ InitValider
    /\ InitReplikering
    /\ sidste_handling = "start"

\* the readings still to evaluate: one evaluation per start state
BeslutIndeNu == IF sidste_handling = "start" THEN BeslutInde ELSE {}

NextBeslut == \E m \in BeslutIndeNu : AflaesSensor(m)

SpecBeslut == InitBeslut /\ [][NextBeslut]_vars

(***************************************************************************)
(* MQTTKlient.run (mqtt.py:346-384): the connection loop of the transport  *)
(* worker.  forbindelser records the outcome of every klient.connect call. *)
(***************************************************************************)
MAX_FORBINDELSES_FORSOEG == 5
GENFORSOEGS_DELAY == 5

\* the condition of the outer while (mqtt.py:352)
run_fortsaetter_altid(koerer_flag, f) == koerer_flag

run_fortsaetter(koerer_flag, f) == koerer_flag /\ f < MAX_FORBINDELSES_FORSOEG

ikkeForbindVars == <<klimaVars, sensor_data, batchVars, sync_pc, data, forsoeg_taeller,
                     vent_tid, svar, remote_sensor_data, remote_fejl_logs,
                     remote_system_logs, db_sensor_data, laasVars, kald, sync_spor,
                     web_svar, marker_kald, ejerVars, validerVars, indeVars, fladeVars, hvileVars,
                     sidste_besked>>

\* main.py:91, mqtt_klient.start()
RunStart ==
    /\ run_pc = "ikke_startet"
    /\ run_pc' = "loekke"
    /\ sidste_handling' = "run_start"
    /\ UNCHANGED <<now, ikkeForbindVars, forsoeg, forbindelser, nedVars, db_fejl_logs, db_system_logs, naeste_id>>

\* one pass of the outer loop up to the inner loop or the except branch:
\* klient.connect returns (ok) or raises
Forbind(ok) ==
    /\ run_pc = "loekke"
    /\ run_fortsaetter(koerer.mqtt, forsoeg)
    /\ forbindelser' = Append(forbindelser, IF ok THEN "ok" ELSE "fejl")
    /\ IF ok
       THEN /\ forsoeg' = 0
            /\ run_pc' = "forbundet"
            /\ UNCHANGED <<db_fejl_logs, naeste_id>>
       ELSE /\ forsoeg' = forsoeg + 1
            /\ db_fejl_logs' = gem_fejl(db_fejl_logs, naeste_id.fejl_logs,
                                        "Kunne ikke forbinde", now)
            /\ naeste_id' = [naeste_id EXCEPT !.fejl_logs = @ + 1]
            /\ run_pc' = IF forsoeg' < MAX_FORBINDELSES_FORSOEG
                         THEN "venter" ELSE "loekke"
    /\ sidste_handling' = "forbind"
    /\ UNCHANGED <<now, ikkeForbindVars, nedVars,
                   db_system_logs>>

\* time.sleep(GENFORSØGS_DELAY) returns
VentGenforsoeg ==
    /\ run_pc = "venter"
    /\ now' = now + GENFORSOEGS_DELAY
    /\ run_pc' = "loekke"
    /\ sidste_handling' = "vent_genforsoeg"
    /\ UNCHANGED <<ikkeForbindVars, forsoeg, forbindelser, nedVars, db_fejl_logs, db_system_logs, naeste_id>>

\* the inner loop (mqtt.py:368-371) sees kører False
ForladIndreLoekke ==
    /\ run_pc = "forbundet"
    /\ ~koerer.mqtt
    /\ run_pc' = "loekke"
    /\ sidste_handling' = "forlad_indre_loekke"
    /\ UNCHANGED <<now, ikkeForbindVars, forsoeg, forbindelser, nedVars, db_fejl_logs, db_system_logs, naeste_id>>

\* the outer loop ends, and the code after it (mqtt.py:382-384)
RunSlut ==
    /\ run_pc = "loekke"
    /\ ~run_fortsaetter(koerer.mqtt, forsoeg)
    /\ IF forsoeg >= MAX_FORBINDELSES_FORSOEG
       THEN /\ db_fejl_logs' = gem_fejl(db_fejl_logs, naeste_id.fejl_logs,
                                        "Giver op", now)
            /\ naeste_id' = [naeste_id EXCEPT !.fejl_logs = @ + 1]
       ELSE UNCHANGED <<db_fejl_logs, naeste_id>>
    /\ run_pc' = "slut"
    /\ sidste_handling' = "run_slut"
    /\ UNCHANGED <<now, ikkeForbindVars, forsoeg, forbindelser, nedVars, db_system_logs>>

\* MQTTKlient.stop (mqtt.py:417-429), called from another thread
MqttStop ==
    /\ koerer.mqtt
    /\ koerer' = [koerer EXCEPT !.mqtt = FALSE]
    /\ db_system_logs' = gem_system_log(db_system_logs, naeste_id.system_logs,
                                        "MQTT klient stoppet", now)
    /\ naeste_id' = [naeste_id EXCEPT !.system_logs = @ + 1]
    /\ sidste_handling' = "mqtt_stop"
    /\ UNCHANGED <<now, ikkeForbindVars, forsoeg, run_pc, forbindelser, nedRest, db_fejl_logs>>

\* the rows one call of publicer_kommando writes
publicer_log(udfald) ==
    IF udfald = "ok" THEN [fejl |-> <<>>, log |-> <<"Kommando sendt">>]
    ELSE IF udfald = "afvist"
         THEN [fejl |-> <<"Fejl ved afsendelse af kommando">>, log |-> <<>>]
         ELSE [fejl |-> <<"Kan ikke sende kommando: Ingen MQTT forbindelse">>,
               log |-> <<>>]

RECURSIVE gem_system_logs(_, _, _, _)
\* gem_system_log for each message of beskeder, in order
gem_system_logs(tabel, id, beskeder, t) ==
    IF beskeder = <<>> THEN tabel
    ELSE gem_system_logs(gem_system_log(tabel, id, Head(beskeder), t), id + 1,
                         Tail(beskeder), t)

RECURSIVE gem_fejl_alle(_, _, _, _)
gem_fejl_alle(tabel, id, beskeder, t) ==
    IF beskeder = <<>> THEN tabel
    ELSE gem_fejl_alle(gem_fejl(tabel, id, Head(beskeder), t), id + 1,
                       Tail(beskeder), t)

\* app.py kontroller_vindue as a whole (app.py:189-227): the checks of the
\* command, the override calls with their log rows, publicer_kommando with
\* its log row, and the answer
KontrollerVindueSvar(kommando, rc_ok) ==
    /\ Len(web_svar) < MaxWebKald
    /\ IF kommando \notin TILLADTE_KOMMANDOER
       THEN /\ web_svar' = Append(web_svar, 400)
            /\ UNCHANGED <<manuel_override_indtil, udgivet, publish_udfald,
                           db_fejl_logs, db_system_logs, naeste_id>>
       ELSE LET manuel == kommando \in {"manuel_aaben", "manuel_luk"}
                annulleret == annuller_manuel_override_hvis_manuel_aaben(
                                  kommando, manuel_override_indtil)
                p == publicer_kommando(forbundet, rc_ok, kommando, udgivet)
                logs == (IF manuel /\ annulleret # manuel_override_indtil
                         THEN <<"Eksisterende manuel override aflyst">> ELSE <<>>)
                        \o (IF manuel
                            THEN <<"Manuel override aktiveret",
                                   "Manuel override aktiveret (REST)">>
                            ELSE <<>>)
                        \o publicer_log(p.udfald).log
                fejl == publicer_log(p.udfald).fejl
            IN  /\ manuel_override_indtil' =
                       IF manuel THEN aktiver_manuel_override(now, annulleret)
                       ELSE manuel_override_indtil
                /\ udgivet' = p.udgivet
                /\ publish_udfald' = p.udfald
                /\ db_system_logs' = gem_system_logs(db_system_logs,
                                          naeste_id.system_logs, logs, now)
                /\ db_fejl_logs' = gem_fejl_alle(db_fejl_logs, naeste_id.fejl_logs,
                                                 fejl, now)
                /\ naeste_id' = [naeste_id EXCEPT !.system_logs = @ + Len(logs),
                                                  !.fejl_logs = @ + Len(fejl)]
                /\ web_svar' = Append(web_svar,
                                      kontroller_vindue_svar(p.rejser))
    /\ sidste_handling' = "kontroller_vindue"
    /\ UNCHANGED <<now, maaned, sidste_kommando, sidste_kommando_tid, bme680_data,
                   vindue_status, forbundet, auto_kommando, auto_grund, sensor_data,
                   batchVars, sync_pc, data, forsoeg_taeller, vent_tid, svar,
                   remote_sensor_data, remote_fejl_logs, remote_system_logs,
                   db_sensor_data, laasVars, kald, sync_spor, marker_kald,
                   forbindVars, nedVars, ejerVars, validerVars, indeVars, fladeVars, hvileVars, sidste_besked>>

\* the broker answers the connection made by klient.connect / loop_start
OnConnectEfterForbind(returkode) ==
    /\ run_pc = "forbundet"
    /\ on_connect(returkode)

NextForbind ==
    \/ RunStart
    \/ \E ok \in BOOLEAN : Forbind(ok)
    \/ VentGenforsoeg
    \/ ForladIndreLoekke
    \/ RunSlut
    \/ MqttStop
    \/ \E returkode \in {0, 5} : OnConnectEfterForbind(returkode)
    \/ \E kommando \in WebKommandoer, rc_ok \in BOOLEAN :
           KontrollerVindueSvar(kommando, rc_ok)

SpecForbind == InitSyncSpec /\ [][NextForbind]_vars

(***************************************************************************)
(* Database.markér_som_synkroniseret (database.py:193-235) called with any *)
(* id lists, between appends to the three tables.  Id 2 names a row that   *)
(* does not exist while MaxId = 1.                                         *)
(***************************************************************************)
MarkerLister ==
    [sensor_ids : {{}, {1}}, fejl_ids : {{}, {1, 2}}, log_ids : {{}, {1, 2}}]

MarkerSomSynkroniseret(lister) ==
    /\ Len(marker_kald) < MaxMarkerKald
    /\ db_sensor_data' = marker_som_synkroniseret(db_sensor_data, lister.sensor_ids)
    /\ db_fejl_logs' = marker_som_synkroniseret(db_fejl_logs, lister.fejl_ids)
    /\ db_system_logs' = marker_som_synkroniseret(db_system_logs, lister.log_ids)
    /\ marker_kald' = Append(marker_kald, lister)
    /\ sidste_handling' = "marker_som_synkroniseret"
    /\ UNCHANGED <<now, klimaVars, sensor_data, batchVars, naeste_id, sync_pc, data,
                   forsoeg_taeller, vent_tid, svar, remote_sensor_data,
                   remote_fejl_logs, remote_system_logs, laasVars, kald, sync_spor,
                   web_svar, forbindVars, nedVars, ejerVars, validerVars, indeVars, fladeVars, hvileVars,
                   sidste_besked>>

NextMarker ==
    \/ \E data_type \in DataTyper : GemSensorData(data_type)
    \/ GemFejl
    \/ GemSystemLog
    \/ \E lister \in MarkerLister : MarkerSomSynkroniseret(lister)

SpecMarker == InitSyncSpec /\ [][NextMarker]_vars

(***************************************************************************)
(* main.py: startup, signal_handler and the replication worker.  The       *)
(* handler runs in the main thread, wherever that thread is when the       *)
(* signal arrives; the workers are daemon threads that keep running        *)
(* between its statements and end with the process at sys.exit(0).  A      *)
(* stop() that raises is modelled at its print (before the flag is         *)
(* cleared) for the sensor and the replication worker and at               *)
(* klient.disconnect (after it) for the transport worker.                  *)
(***************************************************************************)
ikkeNedVars == <<klimaVars, sensor_data, batchVars, laasVars, kald, web_svar,
                 marker_kald, forbindVars, ejerVars, validerVars, indeVars, fladeVars, hvileVars, sidste_besked>>
nedSyncVars == <<sync_pc, data, forsoeg_taeller, vent_tid, svar, remote_sensor_data,
                 remote_fejl_logs, remote_system_logs, sync_spor, ned_cyklusser>>

ProcesLever == hoved.pc # "afsluttet"
IHandler == hoved.pc \in {"h_sensor", "h_mqtt", "h_sync", "h_ryd", "h_exit"}

\* the rows a step of main.py writes: event rows, then error rows
MainLog(logs, fejl) ==
    /\ db_system_logs' = gem_system_logs(db_system_logs, naeste_id.system_logs,
                                         logs, now)
    /\ db_fejl_logs' = gem_fejl_alle(db_fejl_logs, naeste_id.fejl_logs, fejl, now)
    /\ naeste_id' = [naeste_id EXCEPT !.system_logs = @ + Len(logs),
                                      !.fejl_logs = @ + Len(fejl)]

\* main(): registrer_signal_handlers (main.py:144)
Registrer ==
    /\ hoved.pc = "ikke_startet"
    /\ hoved' = [hoved EXCEPT !.pc = "init_sensor"]
    /\ MainLog(<<"Signal handlers registreret">>, <<>>)
    /\ sidste_handling' = "registrer"
    /\ UNCHANGED <<now, ikkeNedVars, nedSyncVars, db_sensor_data, sensor_reference,
                   koerer, stoppet>>

\* initialiser_bme680_sensor up to its return (main.py:69-77)
StartSensor ==
    /\ hoved.pc = "init_sensor"
    /\ hoved' = [pc |-> "saet_reference", startet |-> hoved.startet \cup {"bme680"}]
    /\ MainLog(<<"BME680 sensor startet">>, <<>>)
    /\ sidste_handling' = "start_sensor"
    /\ UNCHANGED <<now, ikkeNedVars, nedSyncVars, db_sensor_data, sensor_reference,
                   koerer, stoppet>>

\* the assignment sensor_reference = ... (main.py:152)
SaetReference ==
    /\ hoved.pc = "saet_reference"
    /\ sensor_reference' = Some("bme680")
    /\ hoved' = [hoved EXCEPT !.pc = "init_mqtt"]
    /\ sidste_handling' = "saet_reference"
    /\ UNCHANGED <<now, ikkeNedVars, nedSyncVars, dbVars, koerer, stoppet>>

\* initialiser_mqtt_klient (main.py:85-93)
StartMqtt ==
    /\ hoved.pc = "init_mqtt"
    /\ hoved' = [pc |-> "init_sync", startet |-> hoved.startet \cup {"mqtt"}]
    /\ MainLog(<<"MQTT client startet">>, <<>>)
    /\ sidste_handling' = "start_mqtt"
    /\ UNCHANGED <<now, ikkeNedVars, nedSyncVars, db_sensor_data, sensor_reference,
                   koerer, stoppet>>

\* initialiser_sync_klient (main.py:101-110); the web server follows
StartSync ==
    /\ hoved.pc = "init_sync"
    /\ hoved' = [pc |-> "webserver", startet |-> hoved.startet \cup {"sync"}]
    /\ MainLog(<<"Sync client startet">>, <<>>)
    /\ sidste_handling' = "start_sync"
    /\ UNCHANGED <<now, ikkeNedVars, nedSyncVars, db_sensor_data, sensor_reference,
                   koerer, stoppet>>

\* SIGINT or SIGTERM arrives: signal_handler begins (main.py:18-23)
Signal ==
    /\ hoved.pc \in {"init_sensor", "saet_reference", "init_mqtt", "init_sync",
                     "webserver"}
    /\ hoved' = [hoved EXCEPT !.pc = "h_sensor"]
    /\ MainLog(<<"Shutdown initieret">>, <<>>)
    /\ sidste_handling' = "signal"
    /\ UNCHANGED <<now, ikkeNedVars, nedSyncVars, db_sensor_data, sensor_reference,
                   koerer, stoppet>>

\* the row stop() of a worker writes itself, then the row of main.py
StopLog(hvem, rejser) ==
    IF rejser
    THEN MainLog(<<>>, <<"Fejl ved stop">>)
    ELSE MainLog(<<"stoppet", "Main: stoppet">>, <<>>)

\* main.py:25-31
StopSensor(rejser) ==
    /\ hoved.pc = "h_sensor"
    /\ hoved' = [hoved EXCEPT !.pc = "h_mqtt"]
    /\ IF sensor_reference # None
       THEN /\ koerer' = [koerer EXCEPT !.bme680 = IF rejser THEN @ ELSE FALSE]
            /\ stoppet' = Append(stoppet, [hvem |-> "bme680", rejste |-> rejser])
            /\ StopLog("bme680", rejser)
       ELSE /\ ~rejser
            /\ UNCHANGED <<koerer, stoppet, db_system_logs, db_fejl_logs, naeste_id>>
    /\ sidste_handling' = "stop_sensor"
    /\ UNCHANGED <<now, ikkeNedVars, nedSyncVars, db_sensor_data, sensor_reference>>

\* main.py:33-38
StopMqtt(rejser) ==
    /\ hoved.pc = "h_mqtt"
    /\ hoved' = [hoved EXCEPT !.pc = "h_sync"]
    /\ koerer' = [koerer EXCEPT !.mqtt = FALSE]
    /\ stoppet' = Append(stoppet, [hvem |-> "mqtt", rejste |-> rejser])
    /\ StopLog("mqtt", rejser)
    /\ sidste_handling' = "stop_mqtt"
    /\ UNCHANGED <<now, ikkeNedVars, nedSyncVars, db_sensor_data, sensor_reference>>

\* main.py:40-45
StopSync(rejser) ==
    /\ hoved.pc = "h_sync"
    /\ hoved' = [hoved EXCEPT !.pc = "h_ryd"]
    /\ koerer' = [koerer EXCEPT !.sync = IF rejser THEN @ ELSE FALSE]
    /\ stoppet' = Append(stoppet, [hvem |-> "sync", rejste |-> rejser])
    /\ StopLog("sync", rejser)
    /\ sidste_handling' = "stop_sync"
    /\ UNCHANGED <<now, ikkeNedVars, nedSyncVars, db_sensor_data, sensor_reference>>

\* main.py:47-52: the final sweep; ryd_gammel_data absorbs its own failure,
\* so the cleanup row is written either way
SidsteRyd(ryd_ok) ==
    /\ hoved.pc = "h_ryd"
    /\ hoved' = [hoved EXCEPT !.pc = "h_exit"]
    /\ stoppet' = Append(stoppet, [hvem |-> "ryd", rejste |-> ~ryd_ok])
    /\ LET ryddet(tabel) == IF ryd_ok THEN ryd_gammel_data(tabel, 7, now) ELSE tabel
       IN  /\ db_sensor_data' = ryddet(db_sensor_data)
           /\ db_fejl_logs' = ryddet(db_fejl_logs)
           /\ db_system_logs' = gem_system_log(ryddet(db_system_logs),
                                     naeste_id.system_logs, "Database cleanup udfoert",
                                     now)
           /\ naeste_id' = [naeste_id EXCEPT !.system_logs = @ + 1]
    /\ sidste_handling' = "sidste_ryd"
    /\ UNCHANGED <<now, ikkeNedVars, nedSyncVars, sensor_reference, koerer>>

\* main.py:54-56: sys.exit(0); the daemon threads end where they are
Exit ==
    /\ hoved.pc = "h_exit"
    /\ hoved' = [hoved EXCEPT !.pc = "afsluttet"]
    /\ MainLog(<<"Graceful shutdown fuldfoert">>, <<>>)
    /\ sidste_handling' = "exit"
    /\ UNCHANGED <<now, ikkeNedVars, nedSyncVars, db_sensor_data, sensor_reference,
                   koerer, stoppet>>

\* another worker appends a reading
NedGemSensorData ==
    /\ ProcesLever
    /\ "bme680" \in hoved.startet
    /\ GemSensorData("temperatur")

\* more than the retention window passes
NedTidGaar ==
    /\ ProcesLever
    /\ ~IHandler
    /\ TidGaar

\* SyncKlient.run: the loop test, then sync_data up to requests.post
NedSyncHent(ryd_ok) ==
    /\ ProcesLever
    /\ "sync" \in hoved.startet
    /\ koerer.sync
    /\ ned_cyklusser < MaxNedCyklusser
    /\ SyncHent(ryd_ok)

\* requests.post returns: a 200 after the collector stored the batch
\* (leveret), or a failure that is counted and logged
NedSyncPost(leveret) ==
    /\ ProcesLever
    /\ sync_pc = "sender"
    /\ ned_cyklusser' = ned_cyklusser + 1
    /\ sync_spor' = Append(sync_spor, "post")
    /\ IF leveret
       THEN LET r == modtag_data(data, TRUE, FALSE, remote_sensor_data,
                                 remote_fejl_logs, remote_system_logs)
            IN  /\ remote_sensor_data' = r.sensor_data
                /\ remote_fejl_logs' = r.fejl_logs
                /\ remote_system_logs' = r.system_logs
                /\ svar' = Some([status |-> r.status, forsoeg_foer |-> forsoeg_taeller])
                /\ sync_pc' = "kvitteret"
                /\ UNCHANGED <<forsoeg_taeller, vent_tid, db_fejl_logs, naeste_id>>
       ELSE /\ svar' = Some([status |-> 0, forsoeg_foer |-> forsoeg_taeller])
            /\ forsoeg_taeller' = efter_fejl(forsoeg_taeller)
            /\ vent_tid' = beregn_vent_tid(forsoeg_taeller')
            /\ db_fejl_logs' = gem_fejl(db_fejl_logs, naeste_id.fejl_logs,
                                        "Upload fejlede", now)
            /\ naeste_id' = [naeste_id EXCEPT !.fejl_logs = @ + 1]
            /\ sync_pc' = "sover"
            /\ UNCHANGED <<remote_sensor_data, remote_fejl_logs, remote_system_logs>>
    /\ sidste_handling' = "sync_post"
    /\ UNCHANGED <<now, ikkeNedVars, data, db_sensor_data, db_system_logs, hoved,
                   sensor_reference, koerer, stoppet>>

\* sync_client.py:104-116 after the 200: mark the batch, reset the counter,
\* log, and the wait of the run loop
NedSyncMarker ==
    /\ ProcesLever
    /\ sync_pc = "kvitteret"
    /\ db_sensor_data' = marker_som_synkroniseret(db_sensor_data, Ids(data.sensor_data))
    /\ db_fejl_logs' = marker_som_synkroniseret(db_fejl_logs, Ids(data.fejl_logs))
    /\ db_system_logs' =
           gem_system_log(marker_som_synkroniseret(db_system_logs,
                                                   Ids(data.system_logs)),
                          naeste_id.system_logs, "Upload succes", now)
    /\ naeste_id' = [naeste_id EXCEPT !.system_logs = @ + 1]
    /\ forsoeg_taeller' = efter_succes(forsoeg_taeller)
    /\ vent_tid' = beregn_vent_tid(forsoeg_taeller')
    /\ sync_spor' = Append(sync_spor, "marker_som_synkroniseret")
    /\ sync_pc' = "sover"
    /\ sidste_handling' = "sync_marker"
    /\ UNCHANGED <<now, ikkeNedVars, data, svar, remote_sensor_data, remote_fejl_logs,
                   remote_system_logs, nedVars>>

NextNedlukning ==
    \/ Registrer
    \/ StartSensor
    \/ SaetReference
    \/ StartMqtt
    \/ StartSync
    \/ Signal
    \/ \E rejser \in BOOLEAN : StopSensor(rejser)
    \/ \E rejser \in BOOLEAN : StopMqtt(rejser)
    \/ \E rejser \in BOOLEAN : StopSync(rejser)
    \/ \E ryd_ok \in BOOLEAN : SidsteRyd(ryd_ok)
    \/ Exit
    \/ NedGemSensorData
    \/ NedTidGaar
    \/ \E ryd_ok \in BOOLEAN : NedSyncHent(ryd_ok)
    \/ \E leveret \in BOOLEAN : NedSyncPost(leveret)
    \/ NedSyncMarker

SpecNedlukning == InitSyncSpec /\ [][NextNedlukning]_vars

(***************************************************************************)
(* KlimaController.manuel_override_indtil under its two callers: the       *)
(* sensor thread inside vurder_klima / _kan_sende_kommando                 *)
(* (climate_controller.py:176-177 and :87-92) and the request handler of   *)
(* the control endpoint (app.py:203-227).  The class holds no lock, so     *)
(* every load and every store of the attribute is a step of its own.  The  *)
(* indoor reading of the evaluation is a comfortable one, the outdoor      *)
(* values are present and no command has been sent: past the override      *)
(* test the evaluation decides nothing and writes nothing.                 *)
(***************************************************************************)
MaxEjerTid == 2700       \* SpecEjer stops the clock here
MaxEjerFejl == 1         \* evaluations of SpecEjer that end in an exception

EjerMaaling == [temp |-> 21, fugt |-> 45, gas |-> None]

EjerKommandoer == {"manuel_aaben", "manuel_luk"}

InitEjer ==
    /\ now = 0
    /\ maaned = 1
    /\ InitKlimaController /\ InitStore /\ InitMqtt /\ InitBatch /\ InitSync
    /\ sensor_data = [temperatur |-> Some(10), luftfugtighed |-> Some(50),
                      batteri |-> None]
    /\ InitDrift
    /\ InitValider
    /\ InitReplikering
    /\ sidste_handling = "start"

ikkeEjerVars == <<maaned, sidste_kommando, sidste_kommando_tid, bme680_data,
                  vindue_status, forbundet, sensor_data, batchVars, db_sensor_data,
                  sync_pc, data, forsoeg_taeller, vent_tid, svar, remote_sensor_data,
                  remote_fejl_logs, remote_system_logs, laasVars, kald, sync_spor,
                  marker_kald, forbindVars, nedVars, validerVars, indeVars, fladeVars, hvileVars, sidste_besked>>

sensorTraadUroert == <<now, ikkeEjerVars, web_pc, web_svar, udgivet, publish_udfald,
                       db_system_logs>>

webTraadUroert == <<now, ikkeEjerVars, eval_pc, eval_laest, auto_kommando,
                    auto_grund>>

LogikFejl == {r \in db_fejl_logs : r.fejl_besked = "Fejl i logik"}

TikEjer ==
    /\ now + Tick <= MaxEjerTid
    /\ now' = now + Tick
    /\ sidste_handling' = "tik"
    /\ UNCHANGED <<ikkeEjerVars, ejerVars, manuel_override_indtil, web_svar, udgivet,
                   publish_udfald, auto_kommando, auto_grund, db_fejl_logs,
                   db_system_logs, naeste_id>>

\* indoor_sensor.py:152-155: an exception of vurder_klima is caught by
\* _vurder_klima and stored as an error row
LogikFejler ==
    /\ db_fejl_logs' = gem_fejl(db_fejl_logs, naeste_id.fejl_logs, "Fejl i logik", now)
    /\ naeste_id' = [naeste_id EXCEPT !.fejl_logs = @ + 1]
    /\ eval_pc' = "ude"

\* indoor_sensor.py:133: _vurder_klima calls vurder_klima; the reading is
\* present, so line 172 passes
VurderStart ==
    /\ eval_pc = "ude"
    /\ Cardinality(LogikFejl) < MaxEjerFejl
    /\ eval_pc' = "176a"
    /\ eval_laest' = None
    /\ sidste_handling' = "vurder_start"
    /\ UNCHANGED <<sensorTraadUroert, manuel_override_indtil, skrivere, auto_kommando,
                   auto_grund, db_fejl_logs, naeste_id>>

\* climate_controller.py:176, left operand of the and: the truth value of
\* the attribute
Laes176a ==
    /\ eval_pc = "176a"
    /\ eval_laest' = manuel_override_indtil
    /\ eval_pc' = IF manuel_override_indtil = None THEN "87" ELSE "176b"
    /\ sidste_handling' = "laes_176a"
    /\ UNCHANGED <<sensorTraadUroert, manuel_override_indtil, skrivere, auto_kommando,
                   auto_grund, db_fejl_logs, naeste_id>>

\* climate_controller.py:176, right operand: the attribute is loaded again
\* and compared with datetime.now(); comparing with None raises TypeError
Laes176b ==
    /\ eval_pc = "176b"
    /\ eval_laest' = manuel_override_indtil
    /\ IF manuel_override_indtil = None
       THEN LogikFejler
       ELSE /\ eval_pc' = IF now < Val(manuel_override_indtil) THEN "177" ELSE "87"
            /\ UNCHANGED <<db_fejl_logs, naeste_id>>
    /\ sidste_handling' = "laes_176b"
    /\ UNCHANGED <<sensorTraadUroert, manuel_override_indtil, skrivere, auto_kommando,
                   auto_grund>>

\* climate_controller.py:177-179: the attribute is loaded a third time for
\* the minutes left; then return None, None
Laes177 ==
    /\ eval_pc = "177"
    /\ eval_laest' = manuel_override_indtil
    /\ IF manuel_override_indtil = None
       THEN LogikFejler
       ELSE /\ eval_pc' = "ude"
            /\ UNCHANGED <<db_fejl_logs, naeste_id>>
    /\ sidste_handling' = "laes_177"
    /\ UNCHANGED <<sensorTraadUroert, manuel_override_indtil, skrivere, auto_kommando,
                   auto_grund>>

\* climate_controller.py:87 in _kan_sende_kommando (called at :196)
Laes87 ==
    /\ eval_pc = "87"
    /\ eval_laest' = manuel_override_indtil
    /\ eval_pc' = IF manuel_override_indtil = None THEN "94" ELSE "88"
    /\ sidste_handling' = "laes_87"
    /\ UNCHANGED <<sensorTraadUroert, manuel_override_indtil, skrivere, auto_kommando,
                   auto_grund, db_fejl_logs, naeste_id>>

\* climate_controller.py:88-90: loaded again; an active override returns
\* False, and vurder_klima then returns None, None
Laes88 ==
    /\ eval_pc = "88"
    /\ eval_laest' = manuel_override_indtil
    /\ IF manuel_override_indtil = None
       THEN LogikFejler
       ELSE /\ eval_pc' = IF now < Val(manuel_override_indtil) THEN "ude" ELSE "92"
            /\ UNCHANGED <<db_fejl_logs, naeste_id>>
    /\ sidste_handling' = "laes_88"
    /\ UNCHANGED <<sensorTraadUroert, manuel_override_indtil, skrivere, auto_kommando,
                   auto_grund>>

\* climate_controller.py:92: the expired override is reset
Skriv92 ==
    /\ eval_pc = "92"
    /\ manuel_override_indtil' = None
    /\ skrivere' = skrivere \cup {"bme680"}
    /\ eval_pc' = "94"
    /\ sidste_handling' = "skriv_92"
    /\ UNCHANGED <<sensorTraadUroert, eval_laest, auto_kommando, auto_grund,
                   db_fejl_logs, naeste_id>>

\* climate_controller.py:94-267 and indoor_sensor.py:142-152: the cooldown
\* test and the decision on the reading
VurderRest ==
    /\ eval_pc = "94"
    /\ LET b == vurder_klima(Some(EjerMaaling.temp), Some(EjerMaaling.fugt),
                             EjerMaaling.gas, sensor_data.temperatur,
                             sensor_data.luftfugtighed, vindue_status.status, None,
                             sidste_kommando, sidste_kommando_tid, now, maaned)
       IN  /\ auto_kommando' = b.kommando
           /\ auto_grund' = b.grund
    /\ eval_pc' = "ude"
    /\ sidste_handling' = "vurder_rest"
    /\ UNCHANGED <<sensorTraadUroert, manuel_override_indtil, eval_laest, skrivere,
                   db_fejl_logs, naeste_id>>

\* app.py:203-207: a manual command arrives; manuel_aaben first cancels an
\* existing override (climate_controller.py:149-160)
WebAnnuller(kommando) ==
    /\ web_pc.pc = "ude"
    /\ Len(web_svar) < MaxWebKald
    /\ manuel_override_indtil' =
           annuller_manuel_override_hvis_manuel_aaben(kommando, manuel_override_indtil)
    /\ IF manuel_override_indtil' # manuel_override_indtil
       THEN /\ db_system_logs' = gem_system_log(db_system_logs, naeste_id.system_logs,
                                     "Eksisterende manuel override aflyst", now)
            /\ naeste_id' = [naeste_id EXCEPT !.system_logs = @ + 1]
            /\ skrivere' = skrivere \cup {"web"}
       ELSE UNCHANGED <<db_system_logs, naeste_id, skrivere>>
    /\ web_pc' = [pc |-> "209", kommando |-> Some(kommando)]
    /\ sidste_handling' = "web_annuller"
    /\ UNCHANGED <<webTraadUroert, web_svar, udgivet, publish_udfald, db_fejl_logs>>

\* app.py:209-214: aktiver_manuel_override (climate_controller.py:128-142)
\* and the two log rows
WebAktiver ==
    /\ web_pc.pc = "209"
    /\ manuel_override_indtil' = aktiver_manuel_override(now, manuel_override_indtil)
    /\ skrivere' = skrivere \cup {"web"}
    /\ LET logs == <<"Manuel override aktiveret", "Manuel override aktiveret (REST)">>
       IN  /\ db_system_logs' = gem_system_logs(db_system_logs, naeste_id.system_logs,
                                                logs, now)
           /\ naeste_id' = [naeste_id EXCEPT !.system_logs = @ + Len(logs)]
    /\ web_pc' = [web_pc EXCEPT !.pc = "216"]
    /\ sidste_handling' = "web_aktiver"
    /\ UNCHANGED <<webTraadUroert, web_svar, udgivet, publish_udfald, db_fejl_logs>>

\* app.py:216-227: publicer_kommando with its log row, and the answer
WebPublicer(rc_ok) ==
    /\ web_pc.pc = "216"
    /\ LET p == publicer_kommando(forbundet, rc_ok, Val(web_pc.kommando), udgivet)
           l == publicer_log(p.udfald)
       IN  /\ udgivet' = p.udgivet
           /\ publish_udfald' = p.udfald
           /\ db_system_logs' = gem_system_logs(db_system_logs, naeste_id.system_logs,
                                                l.log, now)
           /\ db_fejl_logs' = gem_fejl_alle(db_fejl_logs, naeste_id.fejl_logs,
                                            l.fejl, now)
           /\ naeste_id' = [naeste_id EXCEPT !.system_logs = @ + Len(l.log),
                                             !.fejl_logs = @ + Len(l.fejl)]
           /\ web_svar' = Append(web_svar, kontroller_vindue_svar(p.rejser))
    /\ web_pc' = [pc |-> "ude", kommando |-> None]
    /\ sidste_handling' = "web_publicer"
    /\ UNCHANGED <<webTraadUroert, manuel_override_indtil, skrivere>>

NextEjer ==
    \/ TikEjer
    \/ VurderStart
    \/ Laes176a
    \/ Laes176b
    \/ Laes177
    \/ Laes87
    \/ Laes88
    \/ Skriv92
    \/ VurderRest
    \/ \E kommando \in EjerKommandoer : WebAnnuller(kommando)
    \/ WebAktiver
    \/ \E rc_ok \in BOOLEAN : WebPublicer(rc_ok)

SpecEjer == InitEjer /\ [][NextEjer]_vars

(***************************************************************************)
(* BME680Sensor.aflæs_sensor as a whole (indoor_sensor.py:77-103): the     *)
(* reading, the state store, the rows of the durable log, the evaluation   *)
(* and what follows a decision.  A reading is self.sensor.data: the        *)
(* library reports a gas resistance with every reading and heat_stable     *)
(* tells whether it can be trusted.  Readings are whole numbers, on which  *)
(* round(x, 1) and int(x) of the store change nothing.  SpecInde starts in *)
(* the states of SpecBeslut and takes one reading per start state;         *)
(* auto_kommando and auto_grund keep the decision of the evaluation.       *)
(***************************************************************************)
IndeLaesninger ==
    [temperature : {21, 26}, humidity : {50},
     gas_resistance : {0, 20000, 30000, 60000}, heat_stable : BOOLEAN]

\* indoor_sensor.py:85-87
gas_af_laesning_uden_heat_stable(d) == Some(d.gas_resistance)

gas_af_laesning(d) == IF d.heat_stable THEN Some(d.gas_resistance) ELSE None

\* sensor_data.py:50-62 (the time stamp is left out)
opdater_bme680_data(temp, fugt, gas) ==
    [temperatur |-> Some(temp), luftfugtighed |-> Some(fugt),
     gas |-> IF gas # None THEN Some(Val(gas)) ELSE None]

\* indoor_sensor.py:91-95, the rows of one reading
gem_bme680_raekker(tabel, id, temp, fugt, gas, t) ==
    LET med_temp == gem_sensor_data(tabel, id, "temperatur", temp, t)
        med_fugt == gem_sensor_data(med_temp, id + 1, "luftfugtighed", fugt, t)
    IN  IF gas # None
        THEN gem_sensor_data(med_fugt, id + 2, "gas", Val(gas), t)
        ELSE med_fugt

\* climate_controller.py:181-194: the log row of the monthly fallback, when
\* the evaluation gets that far
fallback_log(ude_temp, ude_fugt, indtil, t) ==
    IF ~override_aktiv(indtil, t) /\ (ude_temp = None \/ ude_fugt = None)
    THEN <<"Bruger maaneds-gennemsnit">>
    ELSE <<>>

AflaesSensorHel(d, rc_ok) ==
    /\ bme680_laesning = None
    /\ bme680_laesning' = Some(d)
    /\ LET gas == gas_af_laesning(d)
           b == vurder_klima(Some(d.temperature), Some(d.humidity), gas,
                             sensor_data.temperatur, sensor_data.luftfugtighed,
                             vindue_status.status, manuel_override_indtil,
                             sidste_kommando, sidste_kommando_tid, now, maaned)
           sender == b.kommando # None
           p == IF sender
                THEN publicer_kommando(forbundet, rc_ok, Val(b.kommando), udgivet)
                ELSE [udfald |-> publish_udfald, udgivet |-> udgivet,
                      rejser |-> FALSE]
           logs == fallback_log(sensor_data.temperatur, sensor_data.luftfugtighed,
                                manuel_override_indtil, now)
                   \o (IF sender
                       THEN publicer_log(p.udfald).log \o <<"Auto-handling">>
                       ELSE <<>>)
           fejl == IF sender THEN publicer_log(p.udfald).fejl ELSE <<>>
       IN  /\ bme680_data' = opdater_bme680_data(d.temperature, d.humidity, gas)
           /\ db_sensor_data' = gem_bme680_raekker(db_sensor_data,
                                    naeste_id.sensor_data, d.temperature,
                                    d.humidity, gas, now)
           /\ db_system_logs' = gem_system_logs(db_system_logs,
                                    naeste_id.system_logs, logs, now)
           /\ db_fejl_logs' = gem_fejl_alle(db_fejl_logs, naeste_id.fejl_logs,
                                            fejl, now)
           /\ naeste_id' = [sensor_data |-> naeste_id.sensor_data
                                            + (IF gas # None THEN 3 ELSE 2),
                            fejl_logs |-> naeste_id.fejl_logs + Len(fejl),
                            system_logs |-> naeste_id.system_logs + Len(logs)]
           /\ manuel_override_indtil' = b.indtil
           /\ auto_kommando' = b.kommando
           /\ auto_grund' = b.grund
           /\ udgivet' = p.udgivet
           /\ publish_udfald' = p.udfald
           /\ IF sender
              THEN /\ sidste_kommando' = b.kommando
                   /\ sidste_kommando_tid' = Some(now)
              ELSE UNCHANGED <<sidste_kommando, sidste_kommando_tid>>
    /\ sidste_handling' = "aflaes_sensor"
    /\ UNCHANGED <<now, maaned, vindue_status, forbundet, sensor_data, batchVars,
                   sync_pc, data, forsoeg_taeller, vent_tid, svar,
                   remote_sensor_data, remote_fejl_logs, remote_system_logs,
                   laasVars, kald, sync_spor, web_svar, marker_kald, forbindVars,
                   nedVars, ejerVars, validerVars, fladeVars, hvileVars, sidste_besked>>

NextInde == \E d \in IndeLaesninger, rc_ok \in BOOLEAN : AflaesSensorHel(d, rc_ok)

SpecInde == InitBeslut /\ [][NextInde]_vars

(***************************************************************************)
(* valider_værdi (mqtt.py:50-75) as a function of its raw input.  A raw    *)
(* value is what json.loads can hand over: None, a bool, an int, a float   *)
(* or a str.  Floats are counted in units of 1/Skala; a text is a sequence *)
(* of characters.  str() is modelled as Python prints the value: an int    *)
(* without a point, a float with one, and a float whose magnitude is below *)
(* 0.0001 with an exponent.  Floats of 1e16 and above, which print with an *)
(* exponent as well, lie outside the values of the model.                  *)
(***************************************************************************)
Skala == 100000          \* smallest float of the model: 1/Skala = 0.00001

CifferTegn == <<"0", "1", "2", "3", "4", "5", "6", "7", "8", "9">>

Cifre == {CifferTegn[i] : i \in 1..10}

CifferVaerdi(c) == CHOOSE i \in 0..9 : CifferTegn[i + 1] = c

Tekst(slags, tal, tekst) == [slags |-> slags, tal |-> tal, tekst |-> tekst]

RaaFloat(n) == Tekst("float", n, <<>>)

RaaInt(n) == Tekst("int", n, <<>>)

RaaStr(s) == Tekst("str", 0, s)

ValiderFloats ==
    {-4100000, -4000001, -4000000, -2731500, -100000, -10, -9, -5, -1, 0, 1, 5, 9,
     10, 11, 50000, 1230000, 2350000, 8500000, 8500001, 8510000, 10000000,
     15000000}

ValiderInts == {-41, -40, -1, 0, 23, 85, 86, 100, 150}

ValiderStrs ==
    { <<"2", "3", ".", "5">>, <<" ", "1", "2", ".", "3", " ">>, <<"a", "b", "c">>,
      <<"1", "5", "0">>, <<"-", "2", "7", "3", ".", "1", "5">>,
      <<"1", "e", "-", "0", "5">>, <<>>, <<".", "5">>, <<"5", ".">>,
      <<"-", "-", "5">>, <<"-">>, <<"1", ".", "2", ".", "3">>, <<"+", "5">> }

ValiderRaa ==
    {Tekst("None", 0, <<>>), Tekst("bool", 1, <<>>), Tekst("bool", 0, <<>>)}
    \cup {RaaFloat(n) : n \in ValiderFloats}
    \cup {RaaInt(n) : n \in ValiderInts}
    \cup {RaaStr(s) : s \in ValiderStrs}

\* (min_værdi, max_værdi) in whole units, None for no bound
ValiderGraenser == {<<Some(-40), Some(85)>>, <<Some(0), Some(100)>>, <<None, None>>}

Abs(n) == IF n < 0 THEN -n ELSE n

RECURSIVE cifre(_)
\* the decimal digits of a natural number
cifre(n) == IF n < 10 THEN <<CifferTegn[n + 1]>> ELSE Append(cifre(n \div 10), CifferTegn[(n % 10) + 1])

RECURSIVE uden_nuller_bagest(_)
uden_nuller_bagest(s) ==
    IF Len(s) > 1 /\ s[Len(s)] = "0" THEN uden_nuller_bagest(SubSeq(s, 1, Len(s) - 1))
    ELSE s

\* the digits after the point of a float with f/Skala after the point
broek(f) == uden_nuller_bagest(Tail(cifre(Skala + f)))

\* str(x) of a float x = n/Skala (float.__repr__)
str_float(n) ==
    LET fortegn == IF n < 0 THEN <<"-">> ELSE <<>>
        a == Abs(n)
    IN  IF a # 0 /\ a < 10
        THEN fortegn \o <<CifferTegn[a + 1], "e", "-", "0", "5">>
        ELSE fortegn \o cifre(a \div Skala) \o <<".">> \o broek(a % Skala)

str_int(n) == (IF n < 0 THEN <<"-">> ELSE <<>>) \o cifre(Abs(n))

\* str(værdi), mqtt.py:59
str(raa) ==
    IF raa.slags = "float" THEN str_float(raa.tal)
    ELSE IF raa.slags = "int" THEN str_int(raa.tal)
    ELSE IF raa.slags = "bool"
         THEN (IF raa.tal = 1 THEN <<"T", "r", "u", "e">>
               ELSE <<"F", "a", "l", "s", "e">>)
         ELSE raa.tekst

RECURSIVE strip(_)
\* str.strip(), mqtt.py:59
strip(s) ==
    IF s # <<>> /\ s[1] = " " THEN strip(Tail(s))
    ELSE IF s # <<>> /\ s[Len(s)] = " " THEN strip(SubSeq(s, 1, Len(s) - 1))
    ELSE s

KunCifre(s) == s # <<>> /\ \A i \in 1..Len(s) : s[i] \in Cifre

\* the position of the first point of s, Len(s) + 1 if it has none
Punkt(s) == CHOOSE i \in 1..(Len(s) + 1) : /\ i <= Len(s) => s[i] = "."
                                           /\ \A j \in 1..(i - 1) : s[j] # "."

\* FLOAT_VALIDERING.match, mqtt.py:25: ^-?\d+(\.\d+)?$
FLOAT_VALIDERING(s) ==
    LET t == IF s # <<>> /\ s[1] = "-" THEN Tail(s) ELSE s
        p == Punkt(t)
    IN  /\ KunCifre(SubSeq(t, 1, p - 1))
        /\ p <= Len(t) => KunCifre(SubSeq(t, p + 1, Len(t)))

RECURSIVE heltal_af(_)
heltal_af(s) ==
    IF s = <<>> THEN 0 ELSE 10 * heltal_af(SubSeq(s, 1, Len(s) - 1)) + CifferVaerdi(s[Len(s)])

RECURSIVE broek_af(_, _)
\* the value, in units of 1/Skala, of the digits s after the point, the
\* first of them worth vaegt
broek_af(s, vaegt) ==
    IF s = <<>> \/ vaegt = 0 THEN 0
    ELSE CifferVaerdi(s[1]) * vaegt + broek_af(Tail(s), vaegt \div 10)

\* float(s) of a text that matches FLOAT_VALIDERING, in units of 1/Skala
float_af(s) ==
    LET neg == s[1] = "-"
        t == IF neg THEN Tail(s) ELSE s
        p == Punkt(t)
        a == heltal_af(SubSeq(t, 1, p - 1)) * Skala
             + broek_af(SubSeq(t, p + 1, Len(t)), Skala \div 10)
    IN  IF neg THEN -a ELSE a

\* valider_værdi(værdi, min_værdi, max_værdi) on any raw value; the result
\* is None or the float in units of 1/Skala
valider_vaerdi_raa(raa, min_vaerdi, max_vaerdi) ==
    IF raa.slags = "None" THEN None
    ELSE LET vaerdi_str == strip(str(raa))
         IN  IF ~FLOAT_VALIDERING(vaerdi_str) THEN None
             ELSE LET nummer == float_af(vaerdi_str)
                  IN  IF min_vaerdi # None /\ nummer < Val(min_vaerdi) * Skala
                      THEN None
                      ELSE IF max_vaerdi # None /\ nummer > Val(max_vaerdi) * Skala
                      THEN None
                      ELSE Some(nummer)

InitValiderSpec ==
    /\ now = 0
    /\ maaned = 1
    /\ InitKlimaController /\ InitStore /\ InitMqtt /\ InitBatch /\ InitSync
    /\ sensor_data = [temperatur |-> None, luftfugtighed |-> None, batteri |-> None]
    /\ InitDrift
    /\ \E raa \in ValiderRaa, g \in ValiderGraenser :
           valider_ind = Some([vaerdi |-> raa, min_vaerdi |-> g[1],
                               max_vaerdi |-> g[2]])
    /\ valider_ud = None
    /\ InitReplikering
    /\ sidste_handling = "start"

\* one call of valider_værdi; valider_ud holds what it returned
ValiderVaerdi ==
    /\ valider_ud = None
    /\ valider_ud' = Some(valider_vaerdi_raa(Val(valider_ind).vaerdi,
                                             Val(valider_ind).min_vaerdi,
                                             Val(valider_ind).max_vaerdi))
    /\ sidste_handling' = "valider_vaerdi"
    /\ UNCHANGED <<now, klimaVars, sensor_data, batchVars, syncVars, laasVars, kald,
                   sync_spor, web_svar, marker_kald, forbindVars, nedVars, ejerVars,
                   indeVars, fladeVars, hvileVars, valider_ind, sidste_besked>>

NextValider == ValiderVaerdi

SpecValider == InitValiderSpec /\ [][NextValider]_vars

(***************************************************************************)
(* The control surface (app.py): POST /api/vindue/{kommando}               *)
(* (kontroller_vindue, app.py:189-227) and the WebSocket message           *)
(* vindue_command (websocket_endpoint, app.py:259-284).  A command is a    *)
(* text; KOMMANDO_SYNTAX is given by the texts of the model it matches.    *)
(***************************************************************************)
FladeKommandoer == TILLADTE_KOMMANDOER \cup {"stop", "aaben_helt", "LUK", "luk;aaben", ""}

Kanaler == {"rest", "ws"}

\* app.py:176, ^[a-z_]+$
KOMMANDO_SYNTAX(kommando) == kommando \notin {"LUK", "luk;aaben", ""}

\* app.py:191-202 and 262-263: the two tests a command has to pass
kommando_godkendt_kun_syntaks(kommando) == KOMMANDO_SYNTAX(kommando)

kommando_godkendt(kommando) ==
    KOMMANDO_SYNTAX(kommando) /\ kommando \in TILLADTE_KOMMANDOER

\* one command received on kanal: the tests, the override calls with their
\* log rows, publicer_kommando with its log row, and the answer (a status
\* code on REST; on the WebSocket a command_sent message, or nothing)
ModtagKommando(kanal, kommando, rc_ok) ==
    /\ Len(web_modtaget) < MaxWebKald
    /\ web_modtaget' = Append(web_modtaget, [kanal |-> kanal, kommando |-> kommando])
    /\ IF ~kommando_godkendt(kommando)
       THEN /\ web_svar' = IF kanal = "rest" THEN Append(web_svar, 400) ELSE web_svar
            /\ UNCHANGED <<manuel_override_indtil, udgivet, publish_udfald,
                           db_fejl_logs, db_system_logs, naeste_id>>
       ELSE LET manuel == kommando \in {"manuel_aaben", "manuel_luk"}
                annulleret == annuller_manuel_override_hvis_manuel_aaben(
                                  kommando, manuel_override_indtil)
                p == publicer_kommando(forbundet, rc_ok, kommando, udgivet)
                logs == (IF manuel /\ annulleret # manuel_override_indtil
                         THEN <<"Eksisterende manuel override aflyst">> ELSE <<>>)
                        \o (IF manuel
                            THEN <<"Manuel override aktiveret",
                                   IF kanal = "rest"
                                   THEN "Manuel override aktiveret (REST)"
                                   ELSE "Manuel override aktiveret (WS)">>
                            ELSE <<>>)
                        \o publicer_log(p.udfald).log
                fejl == publicer_log(p.udfald).fejl
            IN  /\ manuel_override_indtil' =
                       IF manuel THEN aktiver_manuel_override(now, annulleret)
                       ELSE manuel_override_indtil
                /\ udgivet' = p.udgivet
                /\ publish_udfald' = p.udfald
                /\ db_system_logs' = gem_system_logs(db_system_logs,
                                          naeste_id.system_logs, logs, now)
                /\ db_fejl_logs' = gem_fejl_alle(db_fejl_logs, naeste_id.fejl_logs,
                                                 fejl, now)
                /\ naeste_id' = [naeste_id EXCEPT !.system_logs = @ + Len(logs),
                                                  !.fejl_logs = @ + Len(fejl)]
                /\ web_svar' = IF kanal = "rest"
                               THEN Append(web_svar, kontroller_vindue_svar(p.rejser))
                               ELSE web_svar
    /\ sidste_handling' = "modtag_kommando"
    /\ UNCHANGED <<now, maaned, sidste_kommando, sidste_kommando_tid, bme680_data,
                   vindue_status, forbundet, auto_kommando, auto_grund, sensor_data,
                   batchVars, sync_pc, data, forsoeg_taeller, vent_tid, svar,
                   remote_sensor_data, remote_fejl_logs, remote_system_logs,
                   db_sensor_data, laasVars, kald, sync_spor, marker_kald,
                   forbindVars, nedVars, ejerVars, validerVars, indeVars, wsVars, hvileVars,
                   sidste_besked>>

NextFlade ==
    \/ \E returkode \in {0, 5} : on_connect(returkode)
    \/ \E kanal \in Kanaler, kommando \in FladeKommandoer, rc_ok \in BOOLEAN :
           ModtagKommando(kanal, kommando, rc_ok)

SpecFlade == InitSyncSpec /\ [][NextFlade]_vars

(***************************************************************************)
(* broadcast_til_websockets (websocket_handler.py:11-86) among the         *)
(* connection handlers (app.py:232-234, 318-319) and a writer of the       *)
(* store.  Every await klient.send_text is a point where the other         *)
(* coroutines and threads run.  A send succeeds or raises; fejlede notes   *)
(* the clients whose send raised, frakoblede is the function's own set.    *)
(* The message carries the store's values as read at line 22.              *)
(***************************************************************************)
ikkeWsVars == <<now, klimaVars, sensor_data, batchVars, sync_pc, data, forsoeg_taeller,
                vent_tid, svar, remote_sensor_data, remote_fejl_logs,
                remote_system_logs, db_sensor_data, laasVars, kald, sync_spor,
                web_svar, marker_kald, forbindVars, nedVars, ejerVars, validerVars,
                indeVars, web_modtaget, hvileVars, sidste_besked>>

\* websocket_handler.py:43-72: the clients still to be served after the
\* send to k succeeded (ok) or raised
rest_efter_send_afbrudt(rest, k, ok) == IF ok THEN rest \ {k} ELSE {}

rest_efter_send(rest, k, ok) == rest \ {k}

\* app.py:232-234: a client connects
TilfoejWebsocketKlient(k) ==
    /\ k \notin ws_kendte
    /\ websocket_klienter' = websocket_klienter \cup {k}
    /\ ws_kendte' = ws_kendte \cup {k}
    /\ sidste_handling' = "tilfoej_websocket_klient"
    /\ UNCHANGED <<ikkeWsVars, ws_modtaget, broadcast, db_fejl_logs, db_system_logs,
                   naeste_id>>

\* app.py:317-319: the handler of a client ends
FjernWebsocketKlient(k) ==
    /\ k \in websocket_klienter
    /\ websocket_klienter' = websocket_klienter \ {k}
    /\ db_system_logs' = gem_system_log(db_system_logs, naeste_id.system_logs,
                                        "WebSocket klient disconnected", now)
    /\ naeste_id' = [naeste_id EXCEPT !.system_logs = @ + 1]
    /\ sidste_handling' = "fjern_websocket_klient"
    /\ UNCHANGED <<ikkeWsVars, ws_kendte, ws_modtaget, broadcast, db_fejl_logs>>

\* websocket_handler.py:13-41: the copy of the client set, the early return
\* and the message
BroadcastStart ==
    /\ broadcast.pc = "ude"
    /\ broadcast.nr < MaxBroadcasts
    /\ broadcast' =
           IF websocket_klienter = {}
           THEN [broadcast EXCEPT !.nr = @ + 1, !.besked = None, !.klienter = {},
                                  !.rest = {}, !.frakoblede = {}, !.fejlede = {}]
           ELSE [pc |-> "sender", nr |-> broadcast.nr + 1,
                 besked |-> Some([nr |-> broadcast.nr + 1,
                                  data |-> [bme680 |-> bme680_data,
                                            sensor |-> sensor_data,
                                            vindue |-> vindue_status]]),
                 klienter |-> websocket_klienter, rest |-> websocket_klienter,
                 frakoblede |-> {}, fejlede |-> {}]
    /\ sidste_handling' = "broadcast_start"
    /\ UNCHANGED <<ikkeWsVars, websocket_klienter, ws_kendte, ws_modtaget,
                   db_fejl_logs, db_system_logs, naeste_id>>

\* websocket_handler.py:43-72: one pass of the loop
BroadcastSend(k, ok) ==
    /\ broadcast.pc = "sender"
    /\ k \in broadcast.rest
    /\ IF ok
       THEN /\ ws_modtaget' = [ws_modtaget EXCEPT
                                  ![k] = Append(@, Val(broadcast.besked))]
            /\ broadcast' = [broadcast EXCEPT
                                !.rest = rest_efter_send(broadcast.rest, k, ok)]
            /\ UNCHANGED <<db_fejl_logs, naeste_id>>
       ELSE /\ broadcast' = [broadcast EXCEPT
                                !.rest = rest_efter_send(broadcast.rest, k, ok),
                                !.frakoblede = @ \cup {k},
                                !.fejlede = @ \cup {k}]
            /\ db_fejl_logs' = gem_fejl(db_fejl_logs, naeste_id.fejl_logs,
                                        "fejl ved broadcast", now)
            /\ naeste_id' = [naeste_id EXCEPT !.fejl_logs = @ + 1]
            /\ UNCHANGED ws_modtaget
    /\ sidste_handling' = "broadcast_send"
    /\ UNCHANGED <<ikkeWsVars, websocket_klienter, ws_kendte, db_system_logs>>

\* websocket_handler.py:74-86: the clients that failed are unregistered
BroadcastSlut ==
    /\ broadcast.pc = "sender"
    /\ broadcast.rest = {}
    /\ websocket_klienter' = websocket_klienter \ broadcast.frakoblede
    /\ IF broadcast.frakoblede # {}
       THEN /\ db_system_logs' = gem_system_log(db_system_logs,
                                     naeste_id.system_logs,
                                     "Fjernede disconnected klienter", now)
            /\ naeste_id' = [naeste_id EXCEPT !.system_logs = @ + 1]
       ELSE UNCHANGED <<db_system_logs, naeste_id>>
    /\ broadcast' = [broadcast EXCEPT !.pc = "ude"]
    /\ sidste_handling' = "broadcast_slut"
    /\ UNCHANGED <<ikkeWsVars, ws_kendte, ws_modtaget, db_fejl_logs>>

NextObservatoer ==
    \/ \E k \in Klienter : TilfoejWebsocketKlient(k)
    \/ \E k \in Klienter : FjernWebsocketKlient(k)
    \/ BroadcastStart
    \/ \E k \in Klienter, ok \in BOOLEAN : BroadcastSend(k, ok)
    \/ BroadcastSlut
    \/ \E status \in VindueStatusser : OnMessageVindueStatus(status)

SpecObservatoer == InitSyncSpec /\ [][NextObservatoer]_vars

(***************************************************************************)
(* Claims about the decision engine, checked under SpecKlima               *)
(***************************************************************************)
VurderingSket == sidste_handling' = "aflaes_sensor"

MaalingKraeverAabning ==
    /\ bme680_data.gas = Some(20000)
    /\ vindue_status.status = "lukket"

\* C1: an evaluation made while a manual override is active (now < expires_at)
\* returns no command, whatever the readings and the actuator state are; a
\* command is returned only with no override or at now >= expires_at.
C1_OverrideUndertrykker ==
    [][(/\ VurderingSket
        /\ manuel_override_indtil # None
        /\ now < Val(manuel_override_indtil)) => auto_kommando' = None]_vars

\* an evaluation of very bad air behind a closed window, no cooldown running,
\* made under an active override, has returned no command
C1_Vidne ==
    /\ sidste_handling = "aflaes_sensor"
    /\ manuel_override_indtil # None
    /\ now < Val(manuel_override_indtil)
    /\ sidste_kommando_tid = None
    /\ MaalingKraeverAabning
    /\ auto_kommando = None

\* C2: after gem_kommando('luk') or gem_kommando('aaben') at time t, every
\* evaluation earlier than t + normal_cooldown returns no command.
C2_Cooldown ==
    [][(/\ VurderingSket
        /\ sidste_kommando \in {Some("luk"), Some("aaben")}
        /\ now - Val(sidste_kommando_tid) < normal_cooldown) => auto_kommando' = None]_vars

\* 15 minutes after a recorded 'luk', with no override, very bad air behind a
\* closed window got no command
C2_Vidne ==
    /\ sidste_handling = "aflaes_sensor"
    /\ sidste_kommando = Some("luk")
    /\ now - Val(sidste_kommando_tid) = kort_aaben_cooldown
    /\ manuel_override_indtil = None
    /\ MaalingKraeverAabning
    /\ auto_kommando = None

\* C2, second half: exactly normal_cooldown after the recorded command an
\* evaluation returns a command again
C2_Genoptaget ==
    /\ sidste_handling = "aflaes_sensor"
    /\ sidste_kommando \in {Some("luk"), Some("aaben")}
    /\ now - Val(sidste_kommando_tid) = normal_cooldown
    /\ auto_kommando # None

\* C3: in the automatic path gem_kommando runs only after a publish that
\* succeeded; a failed publish leaves sidste_kommando and sidste_kommando_tid
\* unchanged.
C3_GemKunEfterPublish ==
    [][(sidste_handling' = "send_auto" /\ publish_udfald' # "ok")
       => UNCHANGED <<sidste_kommando, sidste_kommando_tid>>]_vars

(***************************************************************************)
(* Claims about the replication, checked under SpecSync                    *)
(***************************************************************************)
SendSket == sidste_handling' = "sync_send"
Svar200 == svar' # None /\ Val(svar').status = 200
SynkIds(raekker) == Ids(Synkroniseret(raekker))
UsynkIds(raekker) == Ids(Usynkroniseret(raekker))

\* C4: on a 200 response exactly the ids of the batch that was sent become
\* synced, per table; a row appended between the fetch and the marking stays
\* unsynced.
C4_MarkerPraecisBatch ==
    [][(SendSket /\ Svar200) =>
         /\ SynkIds(db_sensor_data') = SynkIds(db_sensor_data) \cup Ids(data.sensor_data)
         /\ SynkIds(db_fejl_logs') = SynkIds(db_fejl_logs) \cup Ids(data.fejl_logs)
         /\ SynkIds(db_system_logs') = SynkIds(db_system_logs) \cup Ids(data.system_logs)
         /\ UsynkIds(db_sensor_data) \ Ids(data.sensor_data) \subseteq UsynkIds(db_sensor_data')
         /\ UsynkIds(db_system_logs) \ Ids(data.system_logs) \subseteq UsynkIds(db_system_logs')
      ]_vars

\* after a 200 for a batch of sensor rows, an event appended while the batch
\* was on its way is still unsynced
C4_Vidne ==
    /\ sidste_handling = "sync_send"
    /\ svar # None /\ Val(svar).status = 200
    /\ data.sensor_data # {}
    /\ Ids(data.sensor_data) \subseteq SynkIds(db_sensor_data)
    /\ \E r \in db_system_logs :
          r.synkroniseret = 0 /\ r.id \notin Ids(data.system_logs) /\ r.besked = "besked"

\* C5: a network call that ends in a non-200 status, a timeout or a
\* connection error changes no synced flag and adds one to the failure
\* counter, and the fetch of the next cycle returns every row of that batch.
C5_FejlBevarerBatch ==
    [][/\ (SendSket /\ ~Svar200) =>
            /\ Synkroniseret(db_sensor_data') = Synkroniseret(db_sensor_data)
            /\ Synkroniseret(db_fejl_logs') = Synkroniseret(db_fejl_logs)
            /\ Synkroniseret(db_system_logs') = Synkroniseret(db_system_logs)
            /\ Usynkroniseret(db_sensor_data) \subseteq Usynkroniseret(db_sensor_data')
            /\ Usynkroniseret(db_fejl_logs) \subseteq Usynkroniseret(db_fejl_logs')
            /\ Usynkroniseret(db_system_logs) \subseteq Usynkroniseret(db_system_logs')
            /\ forsoeg_taeller' = forsoeg_taeller + 1
       /\ (sidste_handling' = "sync_hent" /\ svar # None /\ Val(svar).status # 200) =>
            /\ data.sensor_data \subseteq data'.sensor_data
            /\ data.fejl_logs \subseteq data'.fejl_logs
            /\ data.system_logs \subseteq data'.system_logs
      ]_vars

\* the cycle after a timeout has fetched the failed batch again, together
\* with a row appended since
C5_Vidne ==
    /\ sidste_handling = "sync_hent"
    /\ sync_pc = "sender"
    /\ svar # None /\ Val(svar).status = 0
    /\ forsoeg_taeller = 1
    /\ \E r \in data.system_logs : r.id = 1
    /\ data.sensor_data # {}

\* every row of the remote tables' origin, per table
LokalIds(raekker) == {r.lokal_id : r \in raekker}

\* C6: every row marked synced in the local log is stored by the remote
\* collector (at-least-once delivery, no loss).
C6_SynkroniseretErGemt ==
    /\ SynkIds(db_sensor_data) \subseteq LokalIds(remote_sensor_data)
    /\ SynkIds(db_fejl_logs) \subseteq LokalIds(remote_fejl_logs)
    /\ SynkIds(db_system_logs) \subseteq LokalIds(remote_system_logs)

\* C7: the waits that follow the 1st, 2nd, 3rd, 4th, ... consecutive failed
\* cycle are base, 2*base, 4*base, 8*base, 8*base, ..., never above 2400 s.
C7_Ventetid(fejl) ==
    LET eksponent == IF fejl - 1 < 3 THEN fejl - 1 ELSE 3
        ny_tid == SYNKRONISERINGS_INTERVAL * (2 ^ eksponent)
    IN  IF ny_tid < 2400 THEN ny_tid ELSE 2400

C7_BackoffFoelge ==
    (sidste_handling = "sync_send" /\ forsoeg_taeller >= 1)
        => vent_tid = C7_Ventetid(forsoeg_taeller)

\* C8: a cycle that got a 200 response sets the failure counter to 0 whatever
\* it was, and the wait before the next cycle is the base interval.
C8_SuccesNulstiller ==
    [][(SendSket /\ Svar200) =>
          /\ forsoeg_taeller' = 0
          /\ vent_tid' = SYNKRONISERINGS_INTERVAL]_vars

\* a 200 response after two failed cycles
C8_Vidne ==
    /\ sidste_handling = "sync_send"
    /\ svar # None /\ Val(svar).status = 200 /\ Val(svar).forsoeg_foer = 2
    /\ forsoeg_taeller = 0
    /\ vent_tid = SYNKRONISERINGS_INTERVAL

(***************************************************************************)
(* Claims about the pending batch, checked under SpecBatch                 *)
(***************************************************************************)
\* C9: a cycle whose valid temperature, humidity and battery messages all
\* arrive within the batch timeout, in any order, has fired exactly one
\* 'sensor' notification when it is over.
C9_EnNotifikationPrCyklus ==
    (cyklus.nr > 0 /\ cyklus.afsluttet /\ cyklus.gyldig /\ cyklus.sendt = Emner)
        => notifikationer = 1

\* C10: a cycle of which only two valid messages arrive has fired exactly one
\* 'sensor' notification once the batch timeout has expired.
C10_EnNotifikationVedTimeout ==
    (cyklus.nr > 0 /\ cyklus.afsluttet /\ cyklus.gyldig /\ Cardinality(cyklus.sendt) = 2)
        => notifikationer = 1

(***************************************************************************)
(* Claims about the state store, checked under SpecStore                   *)
(***************************************************************************)
\* the three dicts as SensorData.__init__ leaves them
StartDict(d) ==
    IF d = "sensor"
    THEN [data |-> [temperatur |-> None, luftfugtighed |-> None, batteri |-> None],
          maalt_klokken |-> None]
    ELSE IF d = "bme680"
    THEN [data |-> [temperatur |-> None, luftfugtighed |-> None, gas |-> None],
          maalt_klokken |-> None]
    ELSE [data |-> [status |-> "ukendt", position |-> 0, max_position |-> 0],
          maalt_klokken |-> None]

\* C11: a snapshot returned by hent_alle_data is never torn: each of its three
\* dicts, data fields and målt_klokken together, is the dict as one whole
\* update call (or the constructor) left it, under every interleaving of the
\* writer threads and the reader.
C11_IngenRevetOpdatering ==
    snapshot # None =>
        \A d \in {"sensor", "bme680", "vindue"} :
            Val(snapshot)[d] \in historik[d] \cup {StartDict(d)}

\* a snapshot taken while another thread has been through two indoor updates
\* and waits for the lock or has finished
C11_Vidne ==
    /\ snapshot # None
    /\ Val(snapshot).bme680.data.temperatur # None
    /\ Val(snapshot).vindue.data.status # "ukendt"
    /\ Cardinality(historik.bme680) = 2
    /\ traad["web"].nr = 2

(***************************************************************************)
(* Claims about the ingestion of inbound messages, checked under           *)
(* SpecIndgang                                                             *)
(***************************************************************************)
\* C12: an actuator status message changes only the fields it carries: every
\* one of status, position, max_position that the payload lacks keeps its
\* stored value.
C12_FletPrNoegle ==
    [][(sidste_handling' = "on_message_vindue")
       => \A noegle \in {"status", "position", "max_position"} :
              Val(Val(sidste_besked').payload)[noegle] = None
                  => vindue_status'[noegle] = vindue_status[noegle]]_vars

\* the message carries a field that fails validation: an outdoor value out of
\* its range, or an actuator position / max_position outside 0..4096
FeltUgyldigt(b) ==
    IF b.emne = "temp" THEN Val(b.payload) < -25 \/ Val(b.payload) > 40
    ELSE IF b.emne \in {"fugt", "bat"} THEN Val(b.payload) < 0 \/ Val(b.payload) > 100
    ELSE \E noegle \in {"position", "max_position"} :
             /\ Val(b.payload)[noegle] # None
             /\ Val(Val(b.payload)[noegle]) \notin 0..4096

\* C20: a message with a field that fails validation is dropped: the state
\* store is unchanged and no reading is appended to the durable log.
C20_UgyldigBeskedDroppes ==
    [][(sidste_handling' \in {"on_message_sensor", "on_message_vindue"}
        /\ FeltUgyldigt(Val(sidste_besked')))
       => UNCHANGED <<sensor_data, bme680_data, vindue_status, db_sensor_data>>]_vars

\* the part of C20 that the outdoor branches keep: an outdoor message whose
\* value fails validation leaves store and readings alone and logs an error
C20_UdeBeskedDroppes ==
    [][(sidste_handling' = "on_message_sensor" /\ FeltUgyldigt(Val(sidste_besked')))
       => /\ UNCHANGED <<sensor_data, bme680_data, vindue_status, db_sensor_data>>
          /\ db_fejl_logs' # db_fejl_logs]_vars

(***************************************************************************)
(* Claims about the override entry points, checked under SpecOverride      *)
(***************************************************************************)
\* aktiver(manuel_luk), annuller(manuel_aaben), aktiver(manuel_aaben) were
\* called in this order and the last call has just returned
LukSaaAaben ==
    /\ Len(kald) = 3
    /\ kald[1].metode = "aktiver_manuel_override" /\ kald[1].kommando = "manuel_luk"
    /\ kald[2].metode = "annuller_manuel_override_hvis_manuel_aaben"
    /\ kald[2].kommando = "manuel_aaben"
    /\ kald[3].metode = "aktiver_manuel_override" /\ kald[3].kommando = "manuel_aaben"
    /\ now = kald[3].tid

\* C13: after activate(manual close), cancel-if-manual-open(manual open),
\* activate(manual open) there is one active override, and it expires 30
\* minutes after the last call, whatever was left of the manual-close window.
C13_FrisktVindue ==
    LukSaaAaben =>
        /\ manuel_override_indtil = Some(kald[3].tid + 30 * 60)
        /\ now < Val(manuel_override_indtil)

\* the manual open comes while the manual-close window still has time left
C13_Vidne ==
    /\ LukSaaAaben
    /\ kald[1].tid < kald[2].tid /\ kald[2].tid < kald[1].tid + 30 * 60
    /\ kald[2].tid = kald[3].tid
    /\ manuel_override_indtil = Some(kald[3].tid + 30 * 60)

(***************************************************************************)
(* Claims about the decision function, checked under SpecBeslut.  After an *)
(* evaluation the state holds its inputs (reading, outdoor values,         *)
(* actuator state, cooldown state, clock, month) next to its result.       *)
(***************************************************************************)
Vurderet == sidste_handling = "aflaes_sensor"

IndeTemp == Val(bme680_data.temperatur)
IndeFugt == Val(bme680_data.luftfugtighed)
IndeGas == bme680_data.gas

\* the outdoor values the decision works with: the value of the snapshot, or
\* the month's entry of the table when the snapshot has none
UdeTemp ==
    IF sensor_data.temperatur = None THEN MAANEDLIGE_GNSN_TEMP[maaned]
    ELSE Val(sensor_data.temperatur)
UdeFugt ==
    IF sensor_data.luftfugtighed = None THEN MAANEDLIGE_GNSN_FUGT[maaned]
    ELSE Val(sensor_data.luftfugtighed)

TooHot == IndeTemp > temp_hoej
TooHumid == IndeFugt > fugt_hoej
BadAir == IndeGas # None /\ Val(IndeGas) < gas_lav
VeryBadAir == IndeGas # None /\ Val(IndeGas) < gas_meget_lav
UdeKoeligere == TooHot /\ UdeTemp < IndeTemp
UdeToerrere == TooHumid /\ UdeFugt < IndeFugt

IngenOverride ==
    ~(manuel_override_indtil # None /\ now < Val(manuel_override_indtil))

TidSidenKommando == now - Val(sidste_kommando_tid)

\* no command was recorded, or the longest cooldown (30 minutes) is over
CooldownOmme == sidste_kommando_tid = None \/ TidSidenKommando >= 30 * 60

Fri == Vurderet /\ IngenOverride /\ CooldownOmme

IKomfort ==
    /\ temp_lav <= IndeTemp /\ IndeTemp <= temp_hoej
    /\ fugt_lav <= IndeFugt /\ IndeFugt <= fugt_hoej

\* C14 as stated: with the actuator open, no override and the cooldown over,
\* the decision is Close if temperature and humidity are in their bands and
\* gas is absent or >= the air quality line, or if temperature is below the
\* low threshold; it is no command in every other case.
C14_AabenLukker ==
    (Fri /\ vindue_status.status = "aaben") =>
        auto_kommando =
            IF \/ IKomfort /\ (IndeGas = None \/ Val(IndeGas) >= gas_lav)
               \/ IndeTemp < temp_lav
            THEN Some("luk") ELSE None

\* C14 amended: as C14, with gas absent or strictly above the air quality
\* line; a gas value exactly on the line keeps the actuator open.
C14_AabenLukkerOverLinjen ==
    (Fri /\ vindue_status.status = "aaben") =>
        auto_kommando =
            IF \/ IKomfort /\ (IndeGas = None \/ Val(IndeGas) > gas_lav)
               \/ IndeTemp < temp_lav
            THEN Some("luk") ELSE None

\* indoor {21, 50, 60000} with the actuator open yields Close
C14_Vidne ==
    /\ Fri /\ vindue_status.status = "aaben"
    /\ IndeTemp = 21 /\ IndeFugt = 50 /\ IndeGas = Some(60000)
    /\ auto_kommando = Some("luk")

\* gas exactly on the line, all else comfortable: the actuator stays open
C14_VidnePaaLinjen ==
    /\ Fri /\ vindue_status.status = "aaben"
    /\ IndeTemp = 21 /\ IndeFugt = 50 /\ IndeGas = Some(gas_lav)
    /\ auto_kommando = None

\* C15: with the actuator closed the decision is no command if none of
\* too_hot, too_humid, bad_air holds, and also if none of (too_hot and outdoor
\* cooler), (too_humid and outdoor drier), bad_air holds.
C15_LukketIngenHandling ==
    (/\ Vurderet /\ vindue_status.status = "lukket"
     /\ \/ ~(TooHot \/ TooHumid \/ BadAir)
        \/ ~(UdeKoeligere \/ UdeToerrere \/ BadAir))
        => auto_kommando = None

\* too hot inside, hotter outside, nothing else wrong, nothing else in the
\* way of a command: no command
C15_Vidne ==
    /\ Fri /\ vindue_status.status = "lukket"
    /\ TooHot /\ ~TooHumid /\ ~BadAir /\ UdeTemp > IndeTemp
    /\ auto_kommando = None

C16_VidneMegetDaarlig ==
    /\ Fri /\ vindue_status.status = "lukket"
    /\ VeryBadAir /\ UdeTemp < 10
    /\ auto_kommando = Some("aaben")

\* what the algorithm decides for the reading from the outdoor values UdeTemp
\* and UdeFugt when neither override nor cooldown is in the way
UdenSpaerring ==
    vurder_maalinger(IndeTemp, IndeFugt, IndeGas, UdeTemp, UdeFugt,
                     vindue_status.status)

\* C17: an outdoor temperature or humidity that is absent is replaced by the
\* current month's entry of the table, each value on its own, a present value
\* is never replaced, and the whole algorithm still runs on the result.
C17_MaanedsFallback ==
    Fri => auto_kommando = UdenSpaerring.kommando

\* outdoor temperature absent in January (table: 2 degrees), humidity
\* present: too hot inside, so a short opening is commanded
C17_Vidne ==
    /\ Fri /\ vindue_status.status = "lukket" /\ maaned = 1
    /\ sensor_data.temperatur = None /\ sensor_data.luftfugtighed = Some(55)
    /\ IndeTemp = 26 /\ IndeFugt = 50 /\ IndeGas = Some(60000)
    /\ auto_kommando = Some("kort_aaben")

\* outdoor temperature present and hotter than inside, humidity absent: the
\* present temperature is kept and nothing is commanded
C17_VidneBeholdt ==
    /\ Fri /\ vindue_status.status = "lukket" /\ maaned = 1
    /\ sensor_data.temperatur = Some(30) /\ sensor_data.luftfugtighed = None
    /\ IndeTemp = 26 /\ IndeFugt = 50 /\ IndeGas = Some(60000)
    /\ auto_kommando = None

\* the triggering conditions that hold
Udloesere ==
    (IF UdeKoeligere THEN {"temp"} ELSE {})
    \cup (IF UdeToerrere THEN {"fugt"} ELSE {})
    \cup (IF BadAir THEN {"luft"} ELSE {})

Aabner == auto_kommando \in {Some("aaben"), Some("kort_aaben")}

\* C18 as stated: the reason of every opening command names exactly the
\* triggering conditions that hold: temperature when too hot and outdoor is
\* cooler, humidity when too humid and outdoor is drier, air quality when
\* bad_air.
C18_GrundeNoejagtige ==
    (Vurderet /\ Aabner) => Val(auto_grund).grunde = Udloesere

\* C18 amended: as C18 unless very_bad_air holds; the reason of the opening
\* that very bad air forces names the air quality alone.
C18_GrundeUndtagenMegetDaarlig ==
    (Vurderet /\ Aabner) =>
        Val(auto_grund).grunde = IF VeryBadAir THEN {"luft"} ELSE Udloesere

\* indoor {26, 70, 30000}, outdoor {18, 55}, actuator closed: Open, with
\* temperature, humidity and air quality reported
C18_Vidne ==
    /\ Vurderet /\ vindue_status.status = "lukket"
    /\ IndeTemp = 26 /\ IndeFugt = 70 /\ IndeGas = Some(30000)
    /\ sensor_data.temperatur = Some(18) /\ sensor_data.luftfugtighed = Some(55)
    /\ auto_kommando = Some("aaben")
    /\ Val(auto_grund).grunde = {"temp", "fugt", "luft"}

\* the cooldown of a kind of command: 15 minutes for ShortOpen, 30 minutes
\* for Open and Close
CooldownAf(kommando) == IF kommando = Some("kort_aaben") THEN 15 * 60 ELSE 30 * 60

\* C19 as stated: no command whenever the time since the last recorded
\* command is shorter than the cooldown of the kind of command the decision
\* would otherwise emit, whatever kind the last recorded command was.
C19_CooldownAfNyKommando ==
    (/\ Vurderet /\ sidste_kommando_tid # None
     /\ UdenSpaerring.kommando # None
     /\ TidSidenKommando < CooldownAf(UdenSpaerring.kommando))
        => auto_kommando = None

\* C19 amended: no command whenever the time since the last recorded command
\* is shorter than the cooldown of the kind of the last recorded command (15
\* minutes after ShortOpen, 30 minutes after Open or Close), whatever kind of
\* command the decision would otherwise emit.
C19_CooldownAfSidsteKommando ==
    (/\ Vurderet /\ sidste_kommando_tid # None
     /\ TidSidenKommando < CooldownAf(sidste_kommando))
        => auto_kommando = None

\* 15 minutes after a recorded Close a short opening is warranted: the 30
\* minutes of the Close still hold it back
C19_Vidne ==
    /\ Vurderet /\ IngenOverride
    /\ sidste_kommando = Some("luk") /\ TidSidenKommando = 15 * 60
    /\ UdenSpaerring.kommando = Some("kort_aaben")
    /\ auto_kommando = None

\* 15 minutes after a recorded ShortOpen an Open goes out
C19_VidneEfterKort ==
    /\ Vurderet
    /\ sidste_kommando = Some("kort_aaben") /\ TidSidenKommando = 15 * 60
    /\ auto_kommando = Some("aaben")

(***************************************************************************)
(* Claims about the retention sweep, checked under SpecSync                *)
(***************************************************************************)
Ryd == {"ryd_gammel_data", "ryd_gammel_data_fejlet"}
IntetHentet == data.sensor_data = {} /\ data.fejl_logs = {} /\ data.system_logs = {}

C23_FejletRydIkkeLogget ==
    [][(sync_spor' # sync_spor /\ Len(sync_spor') = 2
          /\ sync_spor'[2] = "ryd_gammel_data_fejlet")
       => db_fejl_logs' = db_fejl_logs]_vars

C23_VidneTom ==
    /\ sync_spor = <<"hent_usynkroniseret_data">>
    /\ IntetHentet
    /\ sidste_handling = "sync_hent"

BevarerUsynkroniseret(foer, efter) ==
    \A r \in Usynkroniseret(foer) : r.id \in Ids(efter)

\* C24: the retention sweep never deletes a record whose synced flag is
\* false: through appends, replication cycles (successful or failed) and
\* sweeps, a record that is not marked synced is still in the durable log
\* after every step.
C24_RydBevarerUsynkroniseret ==
    [][/\ BevarerUsynkroniseret(db_sensor_data, db_sensor_data')
       /\ BevarerUsynkroniseret(db_fejl_logs, db_fejl_logs')
       /\ BevarerUsynkroniseret(db_system_logs, db_system_logs')]_vars

Gammel(r) == r.maalt_klokken < now - 7 * Dag

\* a sweep has just deleted the synced reading while an unsynced record
\* older than the retention window is still there
C24_Vidne ==
    /\ sidste_handling = "sync_hent"
    /\ Len(sync_spor) = 2 /\ sync_spor[2] = "ryd_gammel_data"
    /\ naeste_id.sensor_data > 1 /\ db_sensor_data = {}
    /\ \/ \E r \in db_system_logs : r.synkroniseret = 0 /\ Gammel(r)
       \/ \E r \in db_fejl_logs : r.synkroniseret = 0 /\ Gammel(r)

(***************************************************************************)
(* Claims about the transport worker, checked under SpecForbind            *)
(***************************************************************************)
RECURSIVE FejlTilSidst(_)
\* the number of failed connection attempts since the last successful one
FejlTilSidst(f) ==
    IF f = <<>> \/ f[Len(f)] = "ok" THEN 0
    ELSE 1 + FejlTilSidst(SubSeq(f, 1, Len(f) - 1))

GivetOp == \E r \in db_fejl_logs : r.fejl_besked = "Giver op"

C21_VidneNulstillet ==
    /\ forbindelser = <<"fejl", "fejl", "fejl", "fejl", "ok">>
    /\ forsoeg = 0
    /\ forbundet

Sidste(f) == f[Len(f)]

\* the control endpoint has just handled an allowed command while the
\* transport was not connected
IkkeForbundetKald ==
    /\ sidste_handling' = "kontroller_vindue"
    /\ Len(web_svar') = Len(web_svar) + 1
    /\ Sidste(web_svar') # 400
    /\ ~forbundet

\* C22: publish_command issued while the transport is not connected emits
\* no command message, reports the error to its caller instead of ok, and
\* is not retried; so the control endpoint does not answer success (200)
\* for a command that was not sent.
C22_IkkeForbundetMeldes ==
    [][IkkeForbundetKald =>
         /\ udgivet' = udgivet
         /\ publish_udfald' = "ikke_forbundet"
         /\ Sidste(web_svar') # 200]_vars

\* the part of C22 the code keeps: nothing is handed to the broker, the
\* failure is written to the error log, and the call is made once
C22_IntetSendt ==
    [][IkkeForbundetKald =>
         /\ udgivet' = udgivet
         /\ publish_udfald' = "ikke_forbundet"
         /\ Cardinality(db_fejl_logs') = Cardinality(db_fejl_logs) + 1]_vars

(***************************************************************************)
(* Claims about marking, checked under SpecMarker                          *)
(***************************************************************************)
UroertUdenfor(foer, efter, ids) ==
    /\ Ids(efter) = Ids(foer)
    /\ \A r \in foer : r.id \notin ids => r \in efter

\* C25: marking the same id lists as synced a second time leaves the
\* durable log exactly as it was after the first time, and a marking never
\* changes a record whose id is not in the list given for its table (nor
\* adds or removes records).
C25_MarkerIdempotent ==
    [][sidste_handling' = "marker_som_synkroniseret" /\ marker_kald' # marker_kald =>
         /\ UroertUdenfor(db_sensor_data, db_sensor_data',
                          Sidste(marker_kald').sensor_ids)
         /\ UroertUdenfor(db_fejl_logs, db_fejl_logs', Sidste(marker_kald').fejl_ids)
         /\ UroertUdenfor(db_system_logs, db_system_logs',
                          Sidste(marker_kald').log_ids)
         /\ (sidste_handling = "marker_som_synkroniseret"
               /\ Sidste(marker_kald') = Sidste(marker_kald))
            => /\ db_sensor_data' = db_sensor_data
               /\ db_fejl_logs' = db_fejl_logs
               /\ db_system_logs' = db_system_logs]_vars

\* the reading and the log row with id 1 were marked twice in a row,
\* while the error row, which is in neither list, is still unsynced
C25_Vidne ==
    /\ sidste_handling = "marker_som_synkroniseret"
    /\ Len(marker_kald) = 2
    /\ marker_kald[1] = marker_kald[2]
    /\ marker_kald[2] = [sensor_ids |-> {1}, fejl_ids |-> {}, log_ids |-> {1, 2}]
    /\ \E r \in db_sensor_data : r.id = 1 /\ r.synkroniseret = 1
    /\ \E r \in db_system_logs : r.id = 1 /\ r.synkroniseret = 1
    /\ \E r \in db_fejl_logs : r.synkroniseret = 0

(***************************************************************************)
(* Claims about shutdown, checked under SpecNedlukning                     *)
(***************************************************************************)
Bedt(hvem) == \E i \in 1..Len(stoppet) : stoppet[i].hvem = hvem
BedtFoer(hvem, j) == \E i \in 1..(j - 1) : stoppet[i].hvem = hvem

\* C26: after a shutdown request a replication cycle in flight runs to
\* completion before the process exits: the process never ends between
\* the acknowledged send and the mark-synced write.
C26_CyklusFuldfoert == hoved.pc = "afsluttet" => sync_pc # "kvitteret"

\* C27: every shutdown request performs one final retention sweep, after
\* each worker that is running (sensor, transport, replication) has been
\* asked to stop, also when stopping one of them raised.
C27_RydEfterAlleStop ==
    \A j \in 1..Len(stoppet) :
        stoppet[j].hvem = "ryd" => \A w \in hoved.startet : BedtFoer(w, j)

\* the part of C27 the code keeps: a shutdown that has reached sys.exit
\* has requested exactly one sweep, after the transport and replication
\* workers were asked to stop, whether or not a stop raised
C27_EtRydEfterMqttOgSync ==
    hoved.pc \in {"h_exit", "afsluttet"} =>
        /\ Cardinality({j \in 1..Len(stoppet) : stoppet[j].hvem = "ryd"}) = 1
        /\ stoppet[Len(stoppet)].hvem = "ryd"
        /\ BedtFoer("mqtt", Len(stoppet))
        /\ BedtFoer("sync", Len(stoppet))
        /\ sensor_reference # None => BedtFoer("bme680", Len(stoppet))

(***************************************************************************)
(* Claims about the ownership of the override, checked under SpecEjer      *)
(***************************************************************************)
\* C28: the override (and cooldown) state of the decision engine is read
\* and written by exactly one worker; while an evaluation is in progress no
\* other thread changes it: between VurderStart and the end of the
\* evaluation manuel_override_indtil changes only by a step of the sensor
\* thread itself.
C28_IngenSamtidigSkrivning ==
    [][(eval_pc # "ude" /\ manuel_override_indtil' # manuel_override_indtil)
           => eval_pc' # eval_pc]_vars

\* C28, the first half on its own: at most one thread ever stores the
\* attribute
C28_EnSkriver == Cardinality(skrivere) <= 1

\* C28, what the interleaving costs: the sensor thread resets at line 92
\* only the override it found expired at line 88, and no evaluation ends in
\* an exception
C28_RydderKunUdloebet ==
    [][(eval_pc = "92" /\ eval_pc' # "92") => manuel_override_indtil = eval_laest]_vars

C28_IngenFejlILogik == LogikFejl = {}

(***************************************************************************)
(* Claims about the indoor reading, checked under SpecInde                 *)
(***************************************************************************)
GasRaekker == {r \in db_sensor_data : r.data_type = "gas"}

\* the decision of the evaluation names the air quality
LuftNaevnt ==
    /\ auto_grund # None
    /\ \/ "luft" \in Val(auto_grund).grunde
       \/ Val(auto_grund).tekst = "Meget daarligt indeklima"

OptimaltLukket == auto_grund # None /\ Val(auto_grund).tekst = "Indeklima optimalt"

\* C29: a reading taken while the heater is not stable is stored with gas
\* None, appends no gas row to the durable log and is never judged bad or
\* very bad air, whatever gas resistance the sensor reported with it; a
\* reading with a measured gas of 0 is stored as 0, appends a gas row with
\* value 0, never counts as optimal air, and every command to open that it
\* leads to names the air.
C29_FravaerendeGas ==
    bme680_laesning # None =>
        LET d == Val(bme680_laesning)
        IN  IF ~d.heat_stable
            THEN /\ bme680_data.gas = None
                 /\ GasRaekker = {}
                 /\ ~LuftNaevnt
            ELSE /\ bme680_data.gas = Some(d.gas_resistance)
                 /\ \E r \in GasRaekker : r.vaerdi = d.gas_resistance
                 /\ d.gas_resistance = 0 =>
                        /\ ~OptimaltLukket
                        /\ auto_kommando \in {Some("aaben"), Some("kort_aaben")}
                               => LuftNaevnt

\* an unstable reading was evaluated and led to a command for another reason
C29_Vidne ==
    /\ bme680_laesning # None
    /\ ~Val(bme680_laesning).heat_stable
    /\ Val(bme680_laesning).gas_resistance = 0
    /\ auto_kommando = Some("aaben")
    /\ Val(auto_grund).grunde = {"temp"}

\* a measured gas of 0 opened the window as very bad air
C29_VidneNul ==
    /\ bme680_laesning # None
    /\ Val(bme680_laesning).heat_stable
    /\ Val(bme680_laesning).gas_resistance = 0
    /\ bme680_data.gas = Some(0)
    /\ auto_kommando = Some("aaben")
    /\ Val(auto_grund).tekst = "Meget daarligt indeklima"

(***************************************************************************)
(* Claims about valider_værdi, checked under SpecValider                   *)
(***************************************************************************)
Kaldt == valider_ud # None

Numerisk == Val(valider_ind).vaerdi.slags \in {"int", "float"}

\* the numeric value of the raw input, in units of 1/Skala
RaaTal ==
    LET raa == Val(valider_ind).vaerdi
    IN  IF raa.slags = "int" THEN raa.tal * Skala ELSE raa.tal

Indenfor ==
    LET i == Val(valider_ind)
    IN  /\ i.min_vaerdi # None => RaaTal >= Val(i.min_vaerdi) * Skala
        /\ i.max_vaerdi # None => RaaTal <= Val(i.max_vaerdi) * Skala

\* C30: for a numeric raw input, valider_værdi returns None when the value
\* lies outside [min, max] and the same numeric value when it lies inside.
C30_ValiderVaerdi ==
    (Kaldt /\ Numerisk) =>
        Val(valider_ud) = (IF Indenfor THEN Some(RaaTal) ELSE None)

\* C30, the half that holds: a numeric input outside the range is rejected
C30_UdenforAfvises == (Kaldt /\ Numerisk /\ ~Indenfor) => Val(valider_ud) = None

\* C30, the other half where it holds: an input inside the range that
\* Python prints without an exponent comes back as the same value
C30_IndenforUdenEksponent ==
    (Kaldt /\ Numerisk /\ Indenfor /\ (RaaTal = 0 \/ Abs(RaaTal) >= 10)) =>
        Val(valider_ud) = Some(RaaTal)

\* whatever is returned is a value inside the range
C30_ResultatIndenfor ==
    (Kaldt /\ Val(valider_ud) # None) =>
        LET i == Val(valider_ind)
            r == Val(Val(valider_ud))
        IN  /\ i.min_vaerdi # None => r >= Val(i.min_vaerdi) * Skala
            /\ i.max_vaerdi # None => r <= Val(i.max_vaerdi) * Skala

(***************************************************************************)
(* Claims about the control surface, checked under SpecFlade               *)
(***************************************************************************)
KommandoModtaget == Len(web_modtaget') = Len(web_modtaget) + 1

\* C31: a command received on the control surface (REST or WebSocket) is
\* handed to the publish path only if it is one of the five whitelisted
\* commands: a command outside the whitelist changes neither what the
\* broker got, nor the outcome of the last publish call, nor the override,
\* nor the logs, and REST answers it with 400; a whitelisted command makes
\* one publish call, and what the broker gets is that command.
C31_KunTilladteUdgives ==
    [][KommandoModtaget =>
         LET m == Sidste(web_modtaget')
         IN  IF m.kommando \in {"aaben", "luk", "manuel_aaben", "manuel_luk",
                                "kort_aaben"}
             THEN /\ publish_udfald' \in {"ok", "afvist", "ikke_forbundet"}
                  /\ udgivet' \in {udgivet, Some(m.kommando)}
                  /\ publish_udfald' = "ok" => udgivet' = Some(m.kommando)
             ELSE /\ UNCHANGED <<udgivet, publish_udfald, manuel_override_indtil,
                                 db_system_logs, db_fejl_logs>>
                  /\ m.kanal = "rest" => Sidste(web_svar') = 400]_vars

\* a well-formed command outside the whitelist has been received on each
\* channel while the transport was connected and an override was active,
\* and both are as they were
C31_Vidne ==
    /\ Len(web_modtaget) = 2
    /\ web_modtaget[2] = [kanal |-> "ws", kommando |-> "stop"]
    /\ web_modtaget[1].kommando = "manuel_luk"
    /\ forbundet
    /\ udgivet = Some("manuel_luk")
    /\ manuel_override_indtil # None

C31_VidneRest ==
    /\ Len(web_modtaget) = 2
    /\ web_modtaget[2] = [kanal |-> "rest", kommando |-> "aaben_helt"]
    /\ forbundet
    /\ udgivet = Some("luk")
    /\ Sidste(web_svar) = 400

(***************************************************************************)
(* Claims about the observers, checked under SpecObservatoer               *)
(***************************************************************************)
BroadcastSkridt == broadcast' # broadcast

BroadcastEnder == broadcast.pc = "sender" /\ broadcast'.pc = "ude"

HarModtaget(k, nr) == \E i \in DOMAIN ws_modtaget[k] : ws_modtaget[k][i].nr = nr

\* C32: a failing observer neither corrupts the store nor blocks the
\* others: no step of a broadcast changes the three dicts of the store; a
\* broadcast ends only when every client registered at its start whose send
\* did not raise has received its message, each exactly once and with the
\* values read at the start; and what it unregisters are exactly the
\* clients whose send raised.
C32_FejlendeObservatoer ==
    [][/\ BroadcastSkridt => UNCHANGED <<bme680_data, sensor_data, vindue_status>>
       /\ BroadcastEnder =>
            /\ \A k \in broadcast.klienter \ broadcast.fejlede :
                   /\ HarModtaget(k, broadcast.nr)
                   /\ Cardinality({i \in DOMAIN ws_modtaget[k] :
                                       ws_modtaget[k][i] = Val(broadcast.besked)}) = 1
            /\ \A k \in broadcast.fejlede : ~HarModtaget(k, broadcast.nr)
            /\ websocket_klienter' = websocket_klienter \ broadcast.fejlede]_vars

\* a broadcast to three clients has ended: the send to one of them raised,
\* the two others have the message, and only the first is unregistered
C32_Vidne ==
    /\ broadcast.pc = "ude"
    /\ broadcast.klienter = Klienter
    /\ Cardinality(broadcast.fejlede) = 1
    /\ websocket_klienter = Klienter \ broadcast.fejlede
    /\ \A k \in websocket_klienter : HarModtaget(k, broadcast.nr)
    /\ sidste_handling = "broadcast_slut"

(***************************************************************************)
(* Claims about the actuator status, checked under SpecIndgang             *)
(***************************************************************************)
\* C33: in every reachable state of the store the actuator status
\* satisfies 0 <= position <= max_position.
C33_PositionIndenforMax ==
    /\ 0 <= vindue_status.position
    /\ vindue_status.position <= vindue_status.max_position

\* C33, what the ingestion does guarantee: each of the two numbers on its
\* own lies in 0..4096
C33_PositionIGraenser ==
    /\ vindue_status.position \in 0..4096
    /\ vindue_status.max_position \in 0..4096

(***************************************************************************)
(* Claims about the sensor thread and the control surface together,        *)
(* checked under SpecKlima (decision and publication) and SpecEjer (the    *)
(* loads and stores of the override)                                       *)
(***************************************************************************)
\* C34: no automatic command is published while a manual override is
\* active: whenever the sensor thread hands its decision to the broker, no
\* override is active at that moment.
C34_IngenAutoUnderOverride ==
    [][(sidste_handling' = "send_auto" /\ publish_udfald' = "ok")
       => ~override_aktiv(manuel_override_indtil, now)]_vars

\* C34, the sequential part: a decision is never made under an active
\* override, it can only be overtaken by one
C34_BeslutningUdenOverride ==
    [][(VurderingSket /\ auto_kommando' # None)
       => ~override_aktiv(manuel_override_indtil, now)]_vars

\* C35: an override installed by aktiver_manuel_override stays until it
\* expires unless annuller_manuel_override_hvis_manuel_åben clears it: an
\* active override is reset to None only by the cancel of the request
\* handler, and no evaluation ends in an exception.
C35_OverrideBestaar ==
    [][/\ (override_aktiv(manuel_override_indtil, now)
           /\ manuel_override_indtil' = None) => sidste_handling' = "web_annuller"
       /\ LogikFejl' = LogikFejl]_vars

\* C35, first half alone
C35_KunAnnullerRydder ==
    [][(override_aktiv(manuel_override_indtil, now) /\ manuel_override_indtil' = None)
       => sidste_handling' = "web_annuller"]_vars

\* C35, second half alone
C35_AnnullerFaelderIkke == [][LogikFejl' = LogikFejl]_vars

(***************************************************************************)
(* Claims about the two branches of the decision, checked under SpecBeslut *)
(***************************************************************************)
ErAabning(kommando) == kommando \in {Some("aaben"), Some("kort_aaben")}

\* C36: hysteresis: no reading makes the decision open a closed actuator
\* and close an open one: when an evaluation with the actuator open has
\* returned Close, the same indoor and outdoor values with the actuator
\* closed return no opening command.
C36_Hysterese ==
    (Fri /\ vindue_status.status = "aaben" /\ auto_kommando = Some("luk")) =>
        ~ErAabning(vurder_maalinger(IndeTemp, IndeFugt, IndeGas, UdeTemp, UdeFugt,
                                 "lukket").kommando)

\* C36, where it holds: a Close for optimal air is never paired with an
\* opening command
C36_HystereseOptimalt ==
    (Fri /\ vindue_status.status = "aaben" /\ OptimaltLukket) =>
        ~ErAabning(vurder_maalinger(IndeTemp, IndeFugt, IndeGas, UdeTemp, UdeFugt,
                                 "lukket").kommando)

\* C37: with the actuator state unknown the decision follows the branch of
\* a closed actuator: it never returns Close, and it opens exactly when the
\* indoor air is bad and the outdoor air can improve it.
C37_UkendtSomLukket ==
    (Fri /\ vindue_status.status = "ukendt") =>
        /\ auto_kommando # Some("luk")
        /\ ErAabning(auto_kommando) <=> (UdeKoeligere \/ UdeToerrere \/ BadAir)
        /\ auto_kommando =
               vurder_maalinger(IndeTemp, IndeFugt, IndeGas, UdeTemp, UdeFugt,
                                "lukket").kommando

\* unknown actuator state, comfortable air: nothing, where an open actuator
\* would have been closed
C37_Vidne ==
    /\ Fri
    /\ vindue_status.status = "ukendt"
    /\ IKomfort
    /\ IndeGas = Some(60000)
    /\ auto_kommando = None

\* unknown actuator state, very bad air: the window is opened
C37_VidneAabner ==
    /\ Fri
    /\ vindue_status.status = "ukendt"
    /\ VeryBadAir
    /\ auto_kommando = Some("aaben")

(***************************************************************************)
(* SyncKlient.run over many cycles (sync_client.py:30-141).  sync_data     *)
(* tests one thing of the durable log: whether a table has a row with      *)
(* synkroniseret = 0.  replikering.usynkroniseret counts those rows per    *)
(* table; the synced rows, the ids and the remote tables grow with every   *)
(* cycle and are read by no test of the loop, so they are left out here.   *)
(***************************************************************************)
Tabeller == {"sensor_data", "fejl_logs", "system_logs"}

\* SYNKRONISERINGS_INTERVAL as the environment may set it (config.py:75)
Intervaller == {SYNKRONISERINGS_INTERVAL, 1500, 3600}

InitHvileSpec ==
    /\ now = 0
    /\ maaned = 1
    /\ InitKlimaController /\ InitStore /\ InitMqtt /\ InitBatch /\ InitSync
    /\ sensor_data = [temperatur |-> None, luftfugtighed |-> None, batteri |-> None]
    /\ InitDrift
    /\ InitValider
    /\ \E interval \in Intervaller : replikering = NyReplikering(interval)
    /\ sidste_handling = "start"

ikkeHvileVars == <<now, klimaVars, sensor_data, batchVars, syncVars, laasVars, kald,
                   sync_spor, web_svar, marker_kald, forbindVars, nedVars, ejerVars,
                   validerVars, indeVars, fladeVars, sidste_besked>>

\* the wait of the run loop for a given base interval (sync_client.py:50-59)
beregn_vent_tid_for(interval, taeller) ==
    IF taeller > 0
    THEN LET eksponent == IF taeller < 3 THEN taeller ELSE 3
             ny_tid == interval * (2 ^ eksponent)
         IN  IF 2400 < ny_tid THEN 2400 ELSE ny_tid
    ELSE interval

\* gem_sensor_data, gem_fejl, gem_system_log: one more row with
\* synkroniseret = 0 (database.py:144-161); every exception is swallowed,
\* log_ok says whether the INSERT went through
med_ny_raekke(antal, tabel, log_ok) ==
    IF log_ok THEN [antal EXCEPT ![tabel] = @ + 1] ELSE antal

\* markér_som_synkroniseret with the ids that were fetched: the rows that
\* were appended after the fetch stay unsynced
efter_markering(antal, hentet) == [t \in Tabeller |-> antal[t] - hentet[t]]

\* run(), before the loop: the start row and the grace delay
\* (sync_client.py:32-40)
ReplikerStart(log_ok) ==
    /\ replikering.pc = "ny"
    /\ replikering' = [replikering EXCEPT
           !.pc = "sover",
           !.usynkroniseret = med_ny_raekke(@, "system_logs", log_ok)]
    /\ sidste_handling' = "repliker_start"
    /\ UNCHANGED ikkeHvileVars

\* another worker appends to the durable log
AndreGemmer(tabel) ==
    /\ replikering.usynkroniseret[tabel] < MaxAndre
    /\ replikering' = [replikering EXCEPT
           !.usynkroniseret = med_ny_raekke(@, tabel, TRUE)]
    /\ sidste_handling' = "gem"
    /\ UNCHANGED ikkeHvileVars

\* one cycle up to requests.post (sync_client.py:66-73): the fetch; with
\* nothing fetched sync_data returns and run computes the wait (50-61)
ReplikerHent ==
    /\ replikering.pc = "sover"
    /\ LET hentet == replikering.usynkroniseret
           tom == \A t \in Tabeller : hentet[t] = 0
       IN  replikering' = [replikering EXCEPT
               !.data = hentet,
               !.pc = IF tom THEN "sover" ELSE "sender",
               !.vent_tid = IF tom
                            THEN Some(beregn_vent_tid_for(replikering.interval,
                                                          replikering.forsoeg_taeller))
                            ELSE @]
    /\ sidste_handling' = "repliker_hent"
    /\ UNCHANGED ikkeHvileVars

\* the rest of the cycle (sync_client.py:91-141) and the wait (50-61).
\* svar_200: requests.post returned with status 200; otherwise another
\* status, a timeout or a connection error.
ReplikerSend(svar_200, log_ok) ==
    /\ replikering.pc = "sender"
    /\ ~svar_200 => replikering.forsoeg_taeller < MaxForsoeg
    /\ LET taeller == IF svar_200 THEN efter_succes(replikering.forsoeg_taeller)
                      ELSE efter_fejl(replikering.forsoeg_taeller)
           antal == IF svar_200
                    THEN med_ny_raekke(efter_markering(replikering.usynkroniseret,
                                                       replikering.data),
                                       "system_logs", log_ok)
                    ELSE med_ny_raekke(replikering.usynkroniseret, "fejl_logs",
                                       log_ok)
       IN  replikering' = [replikering EXCEPT
               !.pc = "sover",
               !.usynkroniseret = antal,
               !.forsoeg_taeller = taeller,
               !.vent_tid = Some(beregn_vent_tid_for(replikering.interval, taeller))]
    /\ sidste_handling' = IF svar_200 THEN "repliker_succes" ELSE "repliker_fejl"
    /\ UNCHANGED ikkeHvileVars

Repliker ==
    \/ \E log_ok \in BOOLEAN : ReplikerStart(log_ok)
    \/ ReplikerHent
    \/ \E svar_200 \in BOOLEAN, log_ok \in BOOLEAN : ReplikerSend(svar_200, log_ok)

NextHvile ==
    \/ \E tabel \in Tabeller : AndreGemmer(tabel)
    \/ Repliker

SpecHvile == InitHvileSpec /\ [][NextHvile]_vars

\* the worker is a thread of its own: started, it keeps taking its next
\* step (time.sleep returns, requests.post returns within its timeout)
SpecHvileFair == SpecHvile /\ WF_vars(Repliker)

(***************************************************************************)
(* Claims about the replication loop                                       *)
(***************************************************************************)
IngenUsynkroniseret == \A t \in Tabeller : replikering.usynkroniseret[t] = 0

\* the worker sleeps and the next fetch finds nothing
Hvile == replikering.pc = "sover" /\ IngenUsynkroniseret

\* C38: replication quiescence: if from some point on no other component
\* appends to the durable log and every call is answered 200, then from some
\* point on the worker sleeps with no unsynced record left, so every later
\* cycle fetches nothing and makes no network call.
C38_Hvile ==
    <>[](sidste_handling \notin {"gem", "repliker_fejl"}) => <>[]Hvile

\* C38, the reason: a cycle that was answered 200 and whose own log row was
\* written leaves a row with synkroniseret = 0 behind
C38_SuccesEfterladerRaekke ==
    [][(sidste_handling' = "repliker_succes"
        /\ replikering'.usynkroniseret.system_logs
               > replikering.usynkroniseret.system_logs
                 - replikering.data.system_logs)
       => ~Hvile']_vars

\* C38, what the loop does reach again and again: everything that was
\* fetched is marked
C38_AltHentetMarkeret ==
    [][sidste_handling' = "repliker_succes" =>
          \A t \in {"sensor_data", "fejl_logs"} :
              replikering'.usynkroniseret[t]
                  = replikering.usynkroniseret[t] - replikering.data[t]]_vars

\* C39: for every configured base interval the wait of the loop is never
\* shorter than the base interval, and a cycle that raises the number of
\* consecutive failures does not shorten the wait.
C39_VentTidVokser ==
    [][replikering'.vent_tid # None =>
          /\ Val(replikering'.vent_tid) >= replikering.interval
          /\ (replikering.vent_tid # None
              /\ replikering'.forsoeg_taeller >= replikering.forsoeg_taeller)
             => Val(replikering'.vent_tid) >= Val(replikering.vent_tid)]_vars

\* C39, where it holds: a base interval of at most the ceiling of 2400 s
C39_VentTidVokserUnderLoft ==
    [][(replikering'.vent_tid # None /\ replikering.interval <= 2400) =>
          /\ Val(replikering'.vent_tid) >= replikering.interval
          /\ (replikering.vent_tid # None
              /\ replikering'.forsoeg_taeller >= replikering.forsoeg_taeller)
             => Val(replikering'.vent_tid) >= Val(replikering.vent_tid)]_vars

(***************************************************************************)
(* Remote collector, POST /api/sync as one transaction on one connection   *)
(* (remote_server.py:253-395): the INSERTs of a request are pending until  *)
(* conn.commit() and are seen by no other request before it.               *)
(***************************************************************************)
\* where a request fails: nowhere, in db_pool.getconn(), in the
\* execute_batch of one table, or in conn.commit()
FejlSteder == {"ingen", "forbindelse", "sensor_data", "fejl_logs", "system_logs",
               "commit"}

\* conn.commit(): the pending rows become part of the table
commit(gemt, afventer) == gemt \cup afventer

\* conn.rollback() in both except branches (remote_server.py:375-376, 385-386)
rollback_beholder_indsatte(gemt, afventer) == gemt \cup afventer

rollback(gemt, afventer) == gemt

\* modtag_data with the failure placed at fejl_ved.  An execute_batch runs
\* only for a table the payload has rows for (sensor rows: valid ones), and
\* it raises as well when a NOT NULL column would receive None.  spor lists
\* the statements that ran.
modtag_data_transaktion(payload, token_ok, fejl_ved, r_sensor, r_fejl, r_logs) ==
    LET nye_sensor == sensor_vaerdier(payload.sensor_data)
        nye_fejl == fejl_vaerdier(payload.fejl_logs)
        nye_logs == log_vaerdier(payload.system_logs)
        koer_sensor == nye_sensor # {}
        fejl_sensor == koer_sensor /\ (\/ fejl_ved = "sensor_data"
                                       \/ BryderNotNull(nye_sensor, "maalt_klokken"))
        koer_fejl == ~fejl_sensor /\ payload.fejl_logs # {}
        fejl_fejl == koer_fejl /\ (\/ fejl_ved = "fejl_logs"
                                   \/ BryderNotNull(nye_fejl, "maalt_klokken")
                                   \/ BryderNotNull(nye_fejl, "fejl_besked"))
        koer_logs == ~fejl_sensor /\ ~fejl_fejl /\ payload.system_logs # {}
        fejl_logs == koer_logs /\ (\/ fejl_ved = "system_logs"
                                   \/ BryderNotNull(nye_logs, "maalt_klokken")
                                   \/ BryderNotNull(nye_logs, "besked"))
        koer_commit == ~fejl_sensor /\ ~fejl_fejl /\ ~fejl_logs
        fejlet == ~koer_commit \/ fejl_ved = "commit"
        afventer == [sensor_data |-> IF koer_sensor /\ ~fejl_sensor
                                     THEN nye_sensor ELSE {},
                     fejl_logs |-> IF koer_fejl /\ ~fejl_fejl THEN nye_fejl ELSE {},
                     system_logs |-> IF koer_logs /\ ~fejl_logs THEN nye_logs ELSE {}]
        spor == (IF koer_sensor THEN <<"insert_sensor_data">> ELSE <<>>)
                \o (IF koer_fejl THEN <<"insert_fejl_logs">> ELSE <<>>)
                \o (IF koer_logs THEN <<"insert_system_logs">> ELSE <<>>)
                \o (IF koer_commit THEN <<"commit">> ELSE <<>>)
                \o (IF fejlet THEN <<"rollback">> ELSE <<>>)
    IN  IF ~token_ok
        THEN [status |-> 401, sensor_data |-> r_sensor, fejl_logs |-> r_fejl,
              system_logs |-> r_logs, spor |-> <<>>]
        ELSE IF fejl_ved = "forbindelse"
        THEN [status |-> 500, sensor_data |-> r_sensor, fejl_logs |-> r_fejl,
              system_logs |-> r_logs, spor |-> <<>>]
        ELSE IF fejlet
        THEN [status |-> 500,
              sensor_data |-> rollback(r_sensor, afventer.sensor_data),
              fejl_logs |-> rollback(r_fejl, afventer.fejl_logs),
              system_logs |-> rollback(r_logs, afventer.system_logs),
              spor |-> spor]
        ELSE [status |-> 200,
              sensor_data |-> commit(r_sensor, afventer.sensor_data),
              fejl_logs |-> commit(r_fejl, afventer.fejl_logs),
              system_logs |-> commit(r_logs, afventer.system_logs),
              spor |-> spor]

\* rows of a request body (SyncPayload: lists of arbitrary dicts): with the
\* keys the endpoint reads, with the keys of the hub's SELECT * ('værdi',
\* 'fejl_besked'), and with a key missing
ModtagSensorRaekker ==
    {[id |-> 1, maalt_klokken |-> 0, data_type |-> "temperatur", value |-> 21],
     [id |-> 2, maalt_klokken |-> 0, data_type |-> "temperatur", vaerdi |-> 21]}

ModtagFejlRaekker ==
    {[id |-> 1, maalt_klokken |-> 0, fejlbesked |-> "fejl"],
     [id |-> 2, maalt_klokken |-> 0, fejl_besked |-> "fejl"]}

ModtagLogRaekker ==
    {[id |-> 1, maalt_klokken |-> 0, besked |-> "besked"],
     [id |-> 2, besked |-> "besked"]}

SyncPayloads ==
    {[sensor_data |-> s, fejl_logs |-> f, system_logs |-> l] :
        s \in SUBSET ModtagSensorRaekker, f \in SUBSET ModtagFejlRaekker,
        l \in SUBSET ModtagLogRaekker}

\* one request to /api/sync; a client whose request was not answered 200
\* marks nothing and sends the same rows again.  data holds the body,
\* sync_spor the statements that ran.
PostSync(payload, token_ok, fejl_ved) ==
    /\ LET r == modtag_data_transaktion(payload, token_ok, fejl_ved,
                                        remote_sensor_data, remote_fejl_logs,
                                        remote_system_logs)
       IN  /\ data' = payload
           /\ remote_sensor_data' = r.sensor_data
           /\ remote_fejl_logs' = r.fejl_logs
           /\ remote_system_logs' = r.system_logs
           /\ svar' = Some([status |-> r.status, forsoeg_foer |-> forsoeg_taeller])
           /\ sync_spor' = r.spor
    /\ sidste_handling' = "post_sync"
    /\ UNCHANGED <<now, ikkeSyncVars, db_sensor_data, db_fejl_logs, db_system_logs,
                   naeste_id, sync_pc, forsoeg_taeller, vent_tid>>

NextModtag ==
    \E payload \in SyncPayloads, token_ok \in BOOLEAN, fejl_ved \in FejlSteder :
        PostSync(payload, token_ok, fejl_ved)

SpecModtag == InitSyncSpec /\ [][NextModtag]_vars

(***************************************************************************)
(* Claims about the remote endpoint                                        *)
(***************************************************************************)
\* C40: /api/sync is all-or-nothing: a request that is not answered 200
\* (rejected token, database error, unexpected error) leaves the three
\* remote tables as they were, whichever statements ran before the failure;
\* a request answered 200 has added every valid row of its batch.
C40_AltEllerIntet ==
    [][sidste_handling' = "post_sync" =>
          IF Val(svar').status = 200
          THEN /\ remote_sensor_data'
                      = remote_sensor_data \cup sensor_vaerdier(data'.sensor_data)
               /\ remote_fejl_logs'
                      = remote_fejl_logs \cup fejl_vaerdier(data'.fejl_logs)
               /\ remote_system_logs'
                      = remote_system_logs \cup log_vaerdier(data'.system_logs)
          ELSE UNCHANGED <<remote_sensor_data, remote_fejl_logs,
                           remote_system_logs>>]_vars

\* a request whose sensor rows were inserted failed at a later table and
\* was answered 500: nothing of it is stored
C40_Vidne ==
    /\ sidste_handling = "post_sync"
    /\ Val(svar).status = 500
    /\ sync_spor = <<"insert_sensor_data", "insert_fejl_logs", "rollback">>
    /\ sensor_vaerdier(data.sensor_data) # {}
    /\ remote_sensor_data = {}
    /\ remote_fejl_logs = {}

\* a batch with rows for all three tables is stored whole
C40_VidneGemt ==
    /\ sidste_handling = "post_sync"
    /\ Val(svar).status = 200
    /\ sync_spor = <<"insert_sensor_data", "insert_fejl_logs", "insert_system_logs",
                     "commit">>
    /\ remote_sensor_data = sensor_vaerdier(data.sensor_data)
    /\ remote_fejl_logs = fejl_vaerdier(data.fejl_logs)
    /\ remote_system_logs = log_vaerdier(data.system_logs)

====
